---------------------------- MODULE Spec2Model ----------------------------
(***************************************************************************)
(* A model of the fabric crate's agent layer: the Node run loop, the       *)
(* Orchestrator's liveness tracking and config push, and the subscriber    *)
(* dispatch shared by both agents.  Key expressions are sequences of       *)
(* chunks, payloads are JSON texts abstracted to "parses or not" plus the  *)
(* object's fields, and the wall clock counts whole seconds.               *)
(***************************************************************************)
EXTENDS Integers, Sequences, FiniteSets, Bags, TLC

(***************************************************************************)
(* Bounds of the model.                                                    *)
(***************************************************************************)
MaxTime == 12
MaxClock == 11
MaxPuts == 2
MaxDirect == 1
MaxSamples == 1
MaxSubs == 3
MaxPubPuts == 3
MaxBackoff == 2
MaxEvents == 2
MaxLate == 1
MaxRegs == 2
MaxInFlight == 2
MaxBurst == 101

(***************************************************************************)
(* Program constants.                                                      *)
(***************************************************************************)
STALENESS_THRESHOLD == 10
CHECK_PERIOD == 1
HEARTBEAT_PERIOD == 1
CHANNEL_CAPACITY == 100

NodeIds == {"n1", "n2"}
\* The Node whose subscriber registry and dispatch task are followed.
Agent == "n1"
NodeTypes == {"generic"}
Statuses == {"online", "offline"}
Stamps == {0}
CfgVals == {"a", "b"}
CbIds == {"cb1", "cb2"}

(***************************************************************************)
(* Data types (node/interface.rs).                                         *)
(***************************************************************************)
NodeConfig == [node_id : NodeIds, config : CfgVals]

NodeData == [node_id : NodeIds, node_type : NodeTypes, timestamp : Stamps,
             metadata : {"null"}, status : Statuses]

default_status == "online"

(***************************************************************************)
(* JSON texts.  A payload either is not JSON at all, or is a JSON object   *)
(* given by its fields.  Serialising writes every field of the struct;     *)
(* deserialising fails on a missing required field, reads a missing        *)
(* Option as None and a missing status as default_status.                  *)
(***************************************************************************)
Garbage == [json |-> FALSE, obj |-> <<>>]

Json(o) == [json |-> TRUE, obj |-> o]

to_json_config(c) == Json([node_id |-> c.node_id, config |-> c.config])

to_json(d) == Json([node_id |-> d.node_id, node_type |-> d.node_type,
                    timestamp |-> d.timestamp, metadata |-> d.metadata,
                    status |-> d.status])

Ok(v) == [ok |-> TRUE, val |-> v]
Err == [ok |-> FALSE, val |-> <<>>]

config_from_slice(p) ==
    IF ~p.json THEN Err
    ELSE IF {"node_id", "config"} \subseteq DOMAIN p.obj
         THEN Ok([node_id |-> p.obj.node_id, config |-> p.obj.config])
         ELSE Err

from_json(p) ==
    IF ~p.json THEN Err
    ELSE IF {"node_id", "node_type", "timestamp"} \subseteq DOMAIN p.obj
         THEN Ok([node_id |-> p.obj.node_id,
                  node_type |-> p.obj.node_type,
                  timestamp |-> p.obj.timestamp,
                  metadata |-> IF "metadata" \in DOMAIN p.obj
                               THEN p.obj.metadata ELSE "null",
                  status |-> IF "status" \in DOMAIN p.obj
                             THEN p.obj.status ELSE default_status])
         ELSE Err

(***************************************************************************)
(* Key expressions.                                                        *)
(***************************************************************************)
ConfigSubKey(id) == <<"node", id, "config">>
ConfigKey_fabric(id) == <<"fabric", id, "config">>
ConfigKey(id) == <<"node", id, "config">>
StatusKey(id) == <<"fabric", id, "status">>
StatusGlob == <<"fabric", "*", "status">>
DataKey(id) == <<"node", id, "data">>
EventKey(id, name) == <<"node", id, "event", name>>

RECURSIVE Intersects(_, _)
Intersects(a, b) ==
    IF a = <<>> THEN b = <<>> \/ (Head(b) = "**" /\ Intersects(a, Tail(b)))
    ELSE IF b = <<>> THEN Head(a) = "**" /\ Intersects(Tail(a), b)
    ELSE IF Head(a) = "**"
         THEN Intersects(Tail(a), b) \/ Intersects(a, Tail(b))
    ELSE IF Head(b) = "**"
         THEN Intersects(a, Tail(b)) \/ Intersects(Tail(a), b)
    ELSE /\ (Head(a) = Head(b) \/ Head(a) = "*" \/ Head(b) = "*")
         /\ Intersects(Tail(a), Tail(b))


(***************************************************************************)
(* State of the Orchestrator (orchestrator/orchestrator.rs).               *)
(*   now          wall clock, in seconds                                   *)
(*   orchPc       position of Orchestrator::run: "new", "running",         *)
(*                "stopped" (returned Ok), "failed" (returned an error)    *)
(*   nodes        Orchestrator.nodes: node id -> NodeState                 *)
(*   callbacks    Orchestrator.callbacks: node id -> callback              *)
(*   healthTasks  spawned update_node_health tasks not yet run             *)
(*   checked      the staleness checker has run since the clock last moved *)
(* Observation of the last step and history:                               *)
(*   fired        callback invocations made by the last step               *)
(*   lastOp       the operation the last step performed, the node ids it   *)
(*                concerned, its argument, and the status the node had     *)
(*   superseded   callbacks once registered for a node and since replaced  *)
(*   lastHb       time the last heartbeat of a node was processed          *)
(*   lastTouch    time of the last heartbeat or update_node_state of a     *)
(*                node (both -1 while there was none)                      *)
(***************************************************************************)
VARIABLES now, orchPc, nodes, callbacks, healthTasks, checked,
          fired, lastOp, superseded, lastHb, lastTouch

orchVars == <<now, orchPc, nodes, callbacks, healthTasks, checked,
              fired, lastOp, superseded, lastHb, lastTouch>>

(***************************************************************************)
(* State of the Nodes (node/node.rs), one Node per node id.                *)
(*   nodePc      position of Node::run: "new" (constructed), "loop" (at    *)
(*               the select), "applying" (inside update_config, interface  *)
(*               updated, cached config not yet), "joining" (awaiting the  *)
(*               status task), "done" (returned Ok), "failed" (returned an *)
(*               error)                                                    *)
(*   config      Node.config                                               *)
(*   ifaceCfg    the config held by the Node's interface (GenericNode)     *)
(*   applying    the argument of the run loop's update_config in progress  *)
(*   direct      the argument of a caller's update_config in progress      *)
(*   cfgQueue    samples received by config_subscriber and not yet taken   *)
(*   cancelled   the cancellation token passed to run                      *)
(*   hbTask      the periodic status task: "none", "running", "exited"     *)
(*   hbDone      the status task has ticked in the current period          *)
(* History:                                                                *)
(*   lost        a heartbeat of this Node did not reach the orchestrator   *)
(*   seen        a heartbeat of this Node's run has been processed         *)
(*   lastRecv    the last config sample the loop took that decoded         *)
(*   lastDone    the argument of the update_config call that returned last *)
(*   cfgPuts     number of puts made on config keys                        *)
(*   directCalls number of update_config calls made by callers             *)
(*   hbSent      number of heartbeats the Node has published               *)
(***************************************************************************)
VARIABLES nodePc, config, ifaceCfg, applying, direct, cfgQueue, cancelled,
          hbTask, hbDone, lost, seen, lastRecv, lastDone, cfgPuts,
          directCalls, hbSent

nodeVars == <<nodePc, config, ifaceCfg, applying, direct, cfgQueue,
              cancelled, hbTask, hbDone, lost, seen, lastRecv, lastDone,
              cfgPuts, directCalls, hbSent>>

(***************************************************************************)
(* State of one agent's subscriber dispatch (node/node.rs; the code of     *)
(* orchestrator/orchestrator.rs is the same).                              *)
(*   subscribers  the registry: topic -> callback                          *)
(*   pendingSub   a create_subscriber call that has declared its transport *)
(*                subscriber and not yet inserted the entry                *)
(*   sendTasks    spawned tasks, each about to send one sample             *)
(*   channel      the mpsc channel read by handle_subscriber_samples       *)
(*   subCalls     <<callback, sample id>> -> number of invocations         *)
(* History:                                                                *)
(*   published    the data samples put so far: id -> key, number of        *)
(*                create_subscriber calls begun and returned at the put    *)
(*   replacedSub  topic -> callbacks replaced by a later create_subscriber *)
(*   subBegun     number of create_subscriber calls begun                  *)
(*   subCount     number of create_subscriber calls returned               *)
(***************************************************************************)
VARIABLES subscribers, pendingSub, sendTasks, channel, subCalls,
          published, replacedSub, subBegun, subCount

subVars == <<subscribers, pendingSub, sendTasks, channel, subCalls,
             published, replacedSub, subBegun, subCount>>

(***************************************************************************)
(* State of one agent's publisher registry (node/node.rs; the code of      *)
(* orchestrator/orchestrator.rs is the same), and what calls returned.     *)
(*   publishers  the registry: the topics that have a publisher            *)
(*   pubPuts     number of transport puts made by publish                  *)
(*   ret         what the last call returned: "Ok", or the kind of the     *)
(*               FabricError, or "none" for a step that returns nothing    *)
(***************************************************************************)
VARIABLES publishers, pubPuts, ret

pubVars == <<publishers, pubPuts>>

(***************************************************************************)
(* State of a publish_node_config call in progress                         *)
(* (orchestrator/orchestrator.rs).                                         *)
(*   pubPc        "idle", or "retrying" while the call is in its loop      *)
(*   pubCall      the node id and config of the call                       *)
(*   pubAttempts  number of puts the call has attempted                    *)
(*   pubFailures  number of those that failed                              *)
(***************************************************************************)
VARIABLES pubPc, pubCall, pubAttempts, pubFailures

retryVars == <<pubPc, pubCall, pubAttempts, pubFailures>>

(***************************************************************************)
(* Cancellation and background tasks.                                      *)
(*   orchCancelled  the cancellation token passed to Orchestrator::run     *)
(*   checkTask      the staleness checker task spawned by run: "none",     *)
(*                  "running", "exited"                                    *)
(*   dispatchTask   the task running handle_subscriber_samples, spawned by *)
(*                  the constructor: "running", "exited", "panicked"       *)
(***************************************************************************)
VARIABLES orchCancelled, checkTask, dispatchTask

stopVars == <<orchCancelled, checkTask, dispatchTask>>

(***************************************************************************)
(* Construction and events.                                                *)
(*   built       what the last call of Node::new returned                  *)
(*   eventsPut   per node, the samples put below node/<id>/event while its *)
(*               run was in the loop                                       *)
(*   eventCalls  per node, the calls of handle_event on its interface      *)
(***************************************************************************)
VARIABLES built, eventsPut, eventCalls

evVars == <<built, eventsPut, eventCalls>>

(***************************************************************************)
(* The plugin registry (plugins/mod.rs), a NodeRegistry behind an RwLock.  *)
(*   factories   NodeRegistry.factories: type name -> factory              *)
(*   rwlock      the lock: whether a writer holds it, and how many readers *)
(*   regCall     the register_node_type call in progress                   *)
(*   lookup      the create_node call in progress                          *)
(*   created     what the last create_node call returned                   *)
(* History:                                                                *)
(*   regLog      per type name, the factories registered, in order         *)
(***************************************************************************)
VARIABLES factories, rwlock, regCall, lookup, created, regLog

regVars == <<factories, rwlock, regCall, lookup, created, regLog>>

(***************************************************************************)
(* The Orchestrator's node map lock (self.nodes, a tokio Mutex):           *)
(*   nodesLock   "free", or the operation whose guard holds the lock       *)
(*   cbLock      the same for the callback map (self.callbacks)            *)
(*   opPc        per operation that locks the map, where its call is       *)
(*   opArg       per operation, the argument of the call in progress       *)
(***************************************************************************)
VARIABLES nodesLock, cbLock, opPc, opArg

lockVars == <<nodesLock, cbLock, opPc, opArg>>

(***************************************************************************)
(* History:                                                                *)
(*   delivered   per node, the status payloads the transport has handed    *)
(*               to the Orchestrator's status subscriber, in order         *)
(***************************************************************************)
VARIABLES delivered

histVars == <<delivered>>

\* The state of the parts of the program that the steps of the agents'
\* publishers, retries, shutdown and events leave alone.
restVars == <<regVars, lockVars, histVars>>

extVars == <<pubVars, retryVars, stopVars, ret, evVars, restVars>>

vars == <<orchVars, nodeVars, subVars, extVars>>

Empty == [x \in {} |-> x]

Op(name, ids, arg, prev) ==
    [op |-> name, ids |-> ids, arg |-> arg, prev |-> prev]

NoArg == [none |-> TRUE]

NoOp == Op("none", {}, NoArg, "none")

\* A step that invokes no orchestrator callback.
Quiet(name, ids, arg) ==
    /\ fired' = {}
    /\ lastOp' = Op(name, ids, arg, "none")

StatusOf(nds, x) ==
    IF x \in DOMAIN nds THEN nds[x].last_value.status ELSE "absent"

InLoop(x) == nodePc[x] \in {"loop", "applying"}

InitConfig(x) == [node_id |-> x, config |-> "a"]

SubTopics == {DataKey("n1"), DataKey("*")}
SubCbs == {"cb1", "cb2"}
DataKeys == {DataKey("n1"), DataKey("n2")}

(***************************************************************************)
(* Orchestrator (orchestrator/orchestrator.rs).  Each operation is a       *)
(* function of the maps it reads, giving the node map it leaves and the    *)
(* callback invocations it makes.                                          *)
(***************************************************************************)
Upsert(m, k, v) == (k :> v) @@ m

\* callbacks.get(node_id) and, when present, one call of it.
Invoke(cbs, id, arg) ==
    IF id \in DOMAIN cbs
    THEN {[node |-> id, cb |-> cbs[id], arg |-> arg, times |-> 1]}
    ELSE {}

\* Variant: a JSON text that is no NodeData makes the node "unknown".
update_node_health_unknown(nds, cbs, key, payload, t) ==
    LET node_id == IF Len(key) >= 2 THEN key[2] ELSE "unknown"
        parsed == from_json(payload)
    IN  IF ~payload.json
        THEN [nodes |-> nds, fired |-> {}]
        ELSE IF ~parsed.ok
        THEN [nodes |-> [x \in DOMAIN nds |->
                           IF x = node_id
                           THEN [nds[x] EXCEPT !.last_value.status = "unknown"]
                           ELSE nds[x]],
              fired |-> {}]
        ELSE [nodes |-> Upsert(nds, node_id,
                               [last_value |-> parsed.val, last_update |-> t]),
              fired |-> Invoke(cbs, node_id, parsed.val)]

\* Variant: last_update is the timestamp the heartbeat carries.
update_node_health_stamp(nds, cbs, key, payload, t) ==
    LET node_id == IF Len(key) >= 2 THEN key[2] ELSE "unknown"
        parsed == from_json(payload)
    IN  IF ~payload.json \/ ~parsed.ok
        THEN [nodes |-> nds, fired |-> {}]
        ELSE [nodes |-> Upsert(nds, node_id,
                               [last_value |-> parsed.val,
                                last_update |-> parsed.val.timestamp]),
              fired |-> Invoke(cbs, node_id, parsed.val)]

\* Variant: an entry that exists keeps its last_update.
update_node_health_keep_time(nds, cbs, key, payload, t) ==
    LET node_id == IF Len(key) >= 2 THEN key[2] ELSE "unknown"
        parsed == from_json(payload)
    IN  IF ~payload.json \/ ~parsed.ok
        THEN [nodes |-> nds, fired |-> {}]
        ELSE [nodes |-> Upsert(nds, node_id,
                   [last_value |-> parsed.val,
                    last_update |-> IF node_id \in DOMAIN nds
                                    THEN nds[node_id].last_update ELSE t]),
              fired |-> Invoke(cbs, node_id, parsed.val)]

update_node_health(nds, cbs, key, payload, t) ==
    LET node_id == IF Len(key) >= 2 THEN key[2] ELSE "unknown"
        parsed == from_json(payload)
    IN  IF ~payload.json
        THEN [nodes |-> nds, fired |-> {}]
        ELSE IF ~parsed.ok
        THEN \* absent entry: or_insert_with unwraps the error and the task
             \* panics before inserting; present entry: logged
             [nodes |-> nds, fired |-> {}]
        ELSE [nodes |-> Upsert(nds, node_id,
                               [last_value |-> parsed.val, last_update |-> t]),
              fired |-> Invoke(cbs, node_id, parsed.val)]

\* Variant: an entry that exists is kept (entry().or_insert).
update_node_state_keep(nds, cbs, nd, t) ==
    [nodes |-> IF nd.node_id \in DOMAIN nds THEN nds
               ELSE Upsert(nds, nd.node_id,
                           [last_value |-> nd, last_update |-> t]),
     fired |-> Invoke(cbs, nd.node_id, nd)]

\* Variant: the entry is keyed by the NodeData's node_type.
update_node_state_by_type(nds, cbs, nd, t) ==
    [nodes |-> Upsert(nds, nd.node_type, [last_value |-> nd, last_update |-> t]),
     fired |-> Invoke(cbs, nd.node_id, nd)]

update_node_state(nds, cbs, nd, t) ==
    [nodes |-> Upsert(nds, nd.node_id, [last_value |-> nd, last_update |-> t]),
     fired |-> Invoke(cbs, nd.node_id, nd)]

\* Variant: the first registration for a node id is kept.
register_callback_keep(cbs, id, cb) ==
    IF id \in DOMAIN cbs THEN cbs ELSE Upsert(cbs, id, cb)

register_callback(cbs, id, cb) == Upsert(cbs, id, cb)

\* Variant: a node is stale whatever its status.
IsStale_any_status(st, t) ==
    /\ t >= st.last_update
    /\ t - st.last_update > STALENESS_THRESHOLD

\* Variant: a node is stale after one heartbeat period.
IsStale_short(st, t) ==
    /\ st.last_value.status = "online"
    /\ t >= st.last_update
    /\ t - st.last_update >= HEARTBEAT_PERIOD

IsStale(st, t) ==
    /\ st.last_value.status = "online"
    /\ t >= st.last_update
    /\ t - st.last_update > STALENESS_THRESHOLD

MarkOffline(st) == [st EXCEPT !.last_value.status = "offline"]

\* Variant: stale nodes are marked and no callback is invoked.
check_offline_nodes_silent(nds, cbs, t) ==
    LET stale == {x \in DOMAIN nds : IsStale(nds[x], t)}
    IN  [nodes |-> [x \in DOMAIN nds |->
                      IF x \in stale THEN MarkOffline(nds[x]) ELSE nds[x]],
         fired |-> {}]

check_offline_nodes(nds, cbs, t) ==
    LET stale == {x \in DOMAIN nds : IsStale(nds[x], t)}
    IN  [nodes |-> [x \in DOMAIN nds |->
                      IF x \in stale THEN MarkOffline(nds[x]) ELSE nds[x]],
         fired |-> UNION {Invoke(cbs, x, MarkOffline(nds[x]).last_value)
                          : x \in stale}]

(***************************************************************************)
(* Plugin registry (plugins/mod.rs).                                       *)
(***************************************************************************)
RegTypes == {"mock", "radio"}
FactoryIds == {"f1", "f2"}

\* No config.
None == [node_id |-> "none", config |-> "none"]

NoCall == [pc |-> "idle", type |-> "none", factory |-> "none"]
NoNode == [some |-> FALSE, by |-> "none", config |-> None]
Unlocked == [writer |-> FALSE, readers |-> 0]

\* RwLock: a writer is admitted when nobody holds the lock, a reader when no
\* writer holds it.
write_admitted(l) == ~l.writer /\ l.readers = 0

read_admitted(l) == ~l.writer

\* Variant: the factory registered first for a type is kept.
register_keep(facs, node_type, factory) ==
    IF node_type \in DOMAIN facs THEN facs
    ELSE Upsert(facs, node_type, factory)

\* NodeRegistry::register: factories.insert(node_type, Arc::new(factory))
register(facs, node_type, factory) == Upsert(facs, node_type, factory)

\* NodeRegistry::create_node:
\* factories.get(node_type).map(|factory| factory.create(config))
create_node(facs, node_type, cfg) ==
    IF node_type \in DOMAIN facs
    THEN [some |-> TRUE, by |-> facs[node_type], config |-> cfg]
    ELSE NoNode

\* The operations of the Orchestrator that lock the node map and invoke
\* callbacks, and all those that lock the node map or the callback map.
CallbackOps ==
    {"update_node_health", "update_node_state", "check_offline_nodes"}

LockOps == CallbackOps \cup {"register_callback", "get_nodes"}

\* Variant: update_node_state locks the callbacks before the node map.
lock_order_state_reversed(o) ==
    IF o = "update_node_state" THEN <<"callbacks", "nodes">>
    ELSE IF o \in CallbackOps THEN <<"nodes", "callbacks">>
    ELSE IF o = "register_callback" THEN <<"callbacks">>
    ELSE <<"nodes">>

\* The locks an operation takes, in the order it takes them.
lock_order(o) ==
    IF o \in CallbackOps THEN <<"nodes", "callbacks">>
    ELSE IF o = "register_callback" THEN <<"callbacks">>
    ELSE <<"nodes">>

\* Variant: run publishes its initial status and then declares the
\* subscriber.
run_prologue_status_first == <<"update_status", "declare_subscriber">>

\* The two steps of Node::run before its loop, in their order.
run_prologue == <<"declare_subscriber", "update_status">>

(***************************************************************************)
(* Node (node/node.rs).                                                    *)
(***************************************************************************)
\* Variant: the NodeData carries the id of the Agent, whichever Node
\* builds it.
update_status_agent(x, status, t) ==
    [node_id |-> Agent, node_type |-> "generic", timestamp |-> t,
     metadata |-> "null", status |-> status]

\* The NodeData that update_status builds at time t.
update_status(x, status, t) ==
    [node_id |-> x, node_type |-> "generic", timestamp |-> t,
     metadata |-> "null", status |-> status]

\* Variant: the cached config is left as it was.
WriteConfig_keep(cfg, new_config) == cfg

\* The assignment *config = new_config of update_config.
WriteConfig(cfg, new_config) == new_config

\* Variant: the sample goes to the subscribers whose topic is its key.
handle_subscriber_samples_exact(subs, calls, s) ==
    [k \in DOMAIN calls |->
        calls[k] + IF k[2] = s.id
                   THEN Cardinality({t \in DOMAIN subs :
                                        t = s.key /\ subs[t] = k[1]})
                   ELSE 0]

\* One pass of the dispatch loop over a sample taken from the channel:
\* every registry entry whose key expression intersects the sample's key
\* has its callback called once.
handle_subscriber_samples(subs, calls, s) ==
    [k \in DOMAIN calls |->
        calls[k] + IF k[2] = s.id
                   THEN Cardinality({t \in DOMAIN subs :
                                        Intersects(t, s.key) /\ subs[t] = k[1]})
                   ELSE 0]

\* subscribers.insert(topic, subscriber)
insert_subscriber(subs, topic, cb) == Upsert(subs, topic, cb)

(***************************************************************************)
(* Transport.  A put is delivered once to every declared subscriber whose  *)
(* key expression intersects the key.                                      *)
(***************************************************************************)
AddCopies(b, e, n) == IF n = 0 THEN b ELSE b (+) (e :> n)

\* The status subscriber is declared while Orchestrator::run is running.
StatusSubDeclared == orchPc = "running"

\* The config subscriber of Node x lives from its declaration in run until
\* run returns.
ConfigSubDeclared(x) ==
    \/ nodePc[x] \in {"loop", "applying", "joining"}
    \/ nodePc[x] = "starting" /\ run_prologue[1] = "declare_subscriber"

\* Transport subscribers declared by create_subscriber that a key reaches.
DeclaredCount(subs, pend, key) ==
    Cardinality({t \in DOMAIN subs : Intersects(t, key)})
    + Cardinality({i \in DOMAIN pend : Intersects(pend[i].topic, key)})

Put(key, payload, id) ==
    /\ cfgQueue' = [x \in NodeIds |->
                      IF ConfigSubDeclared(x) /\ Intersects(ConfigSubKey(x), key)
                      THEN Append(cfgQueue[x], payload) ELSE cfgQueue[x]]
    /\ healthTasks' = IF StatusSubDeclared /\ Intersects(StatusGlob, key)
                      THEN healthTasks (+) SetToBag({[key |-> key,
                                                      payload |-> payload]})
                      ELSE healthTasks
    /\ sendTasks' = AddCopies(sendTasks, [id |-> id, key |-> key],
                              DeclaredCount(subscribers, pendingSub, key))

\* publish_node_status: one put of a NodeData on the status key of x.
PublishStatus(x, node_data) ==
    /\ Put(StatusKey(x), to_json(node_data), 0)
    /\ hbSent' = [hbSent EXCEPT ![x] = @ + 1]

orchRest == <<orchPc, nodes, callbacks, checked, superseded, lastHb,
              lastTouch>>
nodeRest == <<nodePc, config, ifaceCfg, applying, direct, cancelled, hbTask,
              hbDone, lost, seen, lastRecv, lastDone, cfgPuts, directCalls,
              hbSent>>
subRest == <<subscribers, pendingSub, channel, subCalls, published,
             replacedSub, subBegun, subCount>>

Init ==
    /\ now = 0
    /\ orchPc = "new"
    /\ nodes = Empty
    /\ callbacks = Empty
    /\ healthTasks = EmptyBag
    /\ checked = FALSE
    /\ fired = {}
    /\ lastOp = NoOp
    /\ superseded = [x \in NodeIds |-> {}]
    /\ lastHb = [x \in NodeIds |-> -1]
    /\ lastTouch = [x \in NodeIds |-> -1]
    /\ nodePc = [x \in NodeIds |-> "new"]
    /\ config = [x \in NodeIds |-> InitConfig(x)]
    /\ ifaceCfg = [x \in NodeIds |-> InitConfig(x)]
    /\ applying = [x \in NodeIds |-> None]
    /\ direct = [x \in NodeIds |-> None]
    /\ cfgQueue = [x \in NodeIds |-> <<>>]
    /\ cancelled = [x \in NodeIds |-> FALSE]
    /\ hbTask = [x \in NodeIds |-> "none"]
    /\ hbDone = [x \in NodeIds |-> FALSE]
    /\ lost = [x \in NodeIds |-> FALSE]
    /\ seen = [x \in NodeIds |-> FALSE]
    /\ lastRecv = [x \in NodeIds |-> None]
    /\ lastDone = [x \in NodeIds |-> None]
    /\ cfgPuts = 0
    /\ directCalls = 0
    /\ hbSent = [x \in NodeIds |-> 0]
    /\ built = [ret |-> "none", node_type |-> "none", interface |-> "none"]
    /\ eventsPut = [x \in NodeIds |-> 0]
    /\ eventCalls = [x \in NodeIds |-> 0]
    /\ factories = Empty
    /\ rwlock = Unlocked
    /\ regCall = NoCall
    /\ lookup = NoCall
    /\ created = NoNode
    /\ regLog = [t \in RegTypes |-> <<>>]
    /\ nodesLock = "free"
    /\ cbLock = "free"
    /\ delivered = [x \in NodeIds |-> <<>>]
    /\ opPc = [o \in LockOps |-> "idle"]
    /\ opArg = [o \in LockOps |-> NoArg]
    /\ subscribers = Empty
    /\ pendingSub = <<>>
    /\ sendTasks = EmptyBag
    /\ channel = <<>>
    /\ subCalls = [k \in SubCbs \X (1..(MaxSamples + MaxLate)) |-> 0]
    /\ published = <<>>
    /\ replacedSub = [t \in SubTopics |-> {}]
    /\ subBegun = 0
    /\ subCount = 0
    /\ publishers = {}
    /\ pubPuts = 0
    /\ ret = "none"
    /\ pubPc = "idle"
    /\ pubCall = [node_id |-> "none", config |-> None]
    /\ pubAttempts = 0
    /\ pubFailures = 0
    /\ orchCancelled = FALSE
    /\ checkTask = "none"
    /\ dispatchTask = "running"

(***************************************************************************)
(* Orchestrator steps.                                                     *)
(***************************************************************************)
\* Orchestrator::run subscribes to the statuses and starts the checker, or
\* returns the error of the subscription.
OrchRun ==
    /\ orchPc = "new"
    /\ orchPc' \in {"running", "failed"}
    /\ checkTask' = IF orchPc' = "running" THEN "running" ELSE checkTask
    /\ Quiet("run", {}, NoArg)
    /\ UNCHANGED <<pubVars, retryVars, ret, orchCancelled, dispatchTask, now,
                   nodes, callbacks, healthTasks, checked, superseded,
                   lastHb, lastTouch, nodeVars, subVars, evVars, restVars>>

\* Cancellation, in one step: the subscriber is undeclared, the checker is
\* joined and run returns Ok.
OrchStop ==
    /\ orchPc = "running"
    /\ orchPc' = "stopped"
    /\ orchCancelled' = TRUE
    /\ checkTask' = "exited"
    /\ Quiet("stop", {}, NoArg)
    /\ UNCHANGED <<pubVars, retryVars, ret, dispatchTask, now, nodes, callbacks, healthTasks, checked, superseded,
                   lastHb, lastTouch, nodeVars, subVars, evVars, restVars>>

\* What processing a status sample leaves behind.
Processed(key, payload) ==
    LET x == key[2]
        r == update_node_health(nodes, callbacks, key, payload, now)
        hb == from_json(payload)
    IN  /\ nodes' = r.nodes
        /\ fired' = r.fired
        /\ lastOp' = IF hb.ok
                     THEN Op("heartbeat", {x}, hb.val, StatusOf(nodes, x))
                     ELSE Op("bad_status", {x}, NoArg, StatusOf(nodes, x))
        /\ lastHb' = IF hb.ok THEN [lastHb EXCEPT ![x] = now] ELSE lastHb
        /\ lastTouch' = IF hb.ok THEN [lastTouch EXCEPT ![x] = now]
                        ELSE lastTouch

\* A spawned update_node_health task runs.
HealthTask(s) ==
    /\ BagIn(s, healthTasks)
    /\ healthTasks' = healthTasks (-) SetToBag({s})
    /\ Processed(s.key, s.payload)
    /\ seen' = [x \in NodeIds |->
                  seen[x] \/ (x = s.key[2] /\ from_json(s.payload).ok)]
    /\ UNCHANGED <<extVars, now, orchPc, callbacks, checked, superseded, subVars,
                   nodePc, config, ifaceCfg, applying, direct, cfgQueue,
                   cancelled, hbTask, hbDone, lost, lastRecv, lastDone,
                   cfgPuts, directCalls, hbSent>>

\* Payloads an agent may put on the status key of x: the heartbeats of x, a
\* NodeData text without status, and a text that is no JSON.
StatusPayloads(x) ==
    {to_json(update_status(x, st, ts)) : st \in Statuses, ts \in Stamps}
    \cup {Json([node_id |-> x, node_type |-> "generic", timestamp |-> 0]),
          Garbage}

\* A status sample is put on fabric/x/status and the task spawned for it
\* runs at once.
StatusSample(x, p) ==
    /\ StatusSubDeclared
    /\ Processed(StatusKey(x), p)
    /\ UNCHANGED <<extVars, now, orchPc, callbacks, healthTasks, checked, superseded,
                   nodeVars, subVars>>

UpdateNodeState(nd) ==
    LET r == update_node_state(nodes, callbacks, nd, now)
    IN  /\ nodes' = r.nodes
        /\ fired' = r.fired
        /\ lastOp' = Op("update_node_state", {nd.node_id}, nd,
                        StatusOf(nodes, nd.node_id))
        /\ lastTouch' = [lastTouch EXCEPT ![nd.node_id] = now]
        /\ UNCHANGED <<extVars, now, orchPc, callbacks, healthTasks, checked,
                       superseded, lastHb, nodeVars, subVars>>

RegisterCallback(x, cb) ==
    /\ callbacks' = register_callback(callbacks, x, cb)
    /\ superseded' = [superseded EXCEPT ![x] =
                        IF x \in DOMAIN callbacks
                        THEN (@ \cup {callbacks[x]}) \ {cb} ELSE @ \ {cb}]
    /\ Quiet("register_callback", {x}, [cb |-> cb])
    /\ UNCHANGED <<extVars, now, orchPc, nodes, healthTasks, checked, lastHb,
                   lastTouch, nodeVars, subVars>>

\* One tick of the checker task spawned by run.
CheckOfflineNodes ==
    /\ checkTask = "running"
    /\ ~checked
    /\ LET r == check_offline_nodes(nodes, callbacks, now)
       IN  /\ nodes' = r.nodes
           /\ fired' = r.fired
           /\ lastOp' = Op("check_offline_nodes",
                           {x \in DOMAIN nodes : r.nodes[x] # nodes[x]},
                           [before |-> [x \in DOMAIN nodes |->
                                           nodes[x].last_value.status]],
                           "none")
    /\ checked' = TRUE
    /\ UNCHANGED <<extVars, now, orchPc, callbacks, healthTasks, superseded, lastHb,
                   lastTouch, nodeVars, subVars>>

\* The clock moves by the staleness threshold, or by one check period more.
ClockAdvance(d) ==
    /\ now + d <= MaxClock
    /\ now' = now + d
    /\ checked' = FALSE
    /\ Quiet("clock", {}, NoArg)
    /\ UNCHANGED <<extVars, orchPc, nodes, callbacks, healthTasks, superseded, lastHb,
                   lastTouch, nodeVars, subVars>>

NextOrch ==
    \/ OrchRun
    \/ OrchStop
    \/ \E x \in NodeIds : \E p \in StatusPayloads(x) : StatusSample(x, p)
    \/ \E nd \in NodeData : UpdateNodeState(nd)
    \/ \E x \in NodeIds, cb \in CbIds : RegisterCallback(x, cb)
    \/ CheckOfflineNodes
    \/ \E d \in {STALENESS_THRESHOLD, STALENESS_THRESHOLD + CHECK_PERIOD} :
          ClockAdvance(d)

SpecOrch == Init /\ [][NextOrch]_vars

(***************************************************************************)
(* Node steps.                                                             *)
(***************************************************************************)
\* Variant: run publishes no status of its own before the loop.
initial_status_none(x, t) == <<>>

\* The statuses run publishes before it spawns the status task and enters
\* its loop.
initial_status(x, t) == <<update_status(x, "online", t)>>

\* Node::run up to its loop: the config subscriber is declared, the initial
\* status is published and the status task is spawned; an error of the
\* declaration or of the initial publication is returned.
NodeRunStart(x) ==
    /\ nodePc[x] = "new"
    /\ \/ /\ nodePc' = [nodePc EXCEPT ![x] = "failed"]
          /\ \E cause \in {"declare_subscriber", "update_status"} :
                Quiet("node_run_err", {x}, [cause |-> cause])
          /\ UNCHANGED <<hbTask, hbDone, lost, seen, cfgQueue, healthTasks,
                         sendTasks, hbSent>>
       \/ /\ nodePc' = [nodePc EXCEPT ![x] = "loop"]
          /\ hbTask' = [hbTask EXCEPT ![x] = "running"]
          /\ hbDone' = [hbDone EXCEPT ![x] = FALSE]
          /\ LET first == initial_status(x, now)
             IN  IF first = <<>>
                 THEN UNCHANGED <<cfgQueue, healthTasks, sendTasks, hbSent>>
                 ELSE PublishStatus(x, first[1])
          /\ lost' = [lost EXCEPT ![x] = ~StatusSubDeclared]
          /\ seen' = [seen EXCEPT ![x] = FALSE]
          /\ Quiet("node_run", {x}, NoArg)
    /\ UNCHANGED <<extVars, now, orchRest, subRest, config, ifaceCfg, applying,
                   direct, cancelled, lastRecv, lastDone, cfgPuts,
                   directCalls>>

\* One tick of the status task: update_status("online"); a failed put is
\* logged.
NodeHeartbeat(x) ==
    /\ hbTask[x] = "running"
    /\ ~hbDone[x]
    /\ hbDone' = [hbDone EXCEPT ![x] = TRUE]
    /\ \/ /\ PublishStatus(x, update_status(x, "online", now))
          /\ lost' = [lost EXCEPT ![x] = @ \/ ~StatusSubDeclared]
       \/ /\ lost' = [lost EXCEPT ![x] = TRUE]
          /\ UNCHANGED <<cfgQueue, healthTasks, sendTasks, hbSent>>
    /\ Quiet("update_status", {x}, NoArg)
    /\ UNCHANGED <<extVars, now, orchRest, subRest, nodePc, config, ifaceCfg,
                   applying, direct, cancelled, hbTask, seen, lastRecv,
                   lastDone, cfgPuts, directCalls>>

\* The loop takes a config sample.  A payload that does not decode makes
\* run return the error; one that decodes enters update_config, which first
\* hands the config to the interface.
NodeRecv(x) ==
    /\ nodePc[x] = "loop"
    /\ cfgQueue[x] # <<>>
    /\ LET new_config == config_from_slice(Head(cfgQueue[x]))
       IN  IF new_config.ok
           THEN /\ nodePc' = [nodePc EXCEPT ![x] = "applying"]
                /\ cfgQueue' = [cfgQueue EXCEPT ![x] = Tail(@)]
                /\ ifaceCfg' = [ifaceCfg EXCEPT ![x] = new_config.val]
                /\ applying' = [applying EXCEPT ![x] = new_config.val]
                /\ lastRecv' = [lastRecv EXCEPT ![x] = new_config.val]
                /\ Quiet("recv_config", {x}, new_config.val)
           ELSE /\ nodePc' = [nodePc EXCEPT ![x] = "failed"]
                /\ cfgQueue' = [cfgQueue EXCEPT ![x] = <<>>]
                /\ Quiet("recv_config_err", {x}, NoArg)
                /\ UNCHANGED <<ifaceCfg, applying, lastRecv>>
    /\ UNCHANGED <<extVars, now, orchRest, healthTasks, subVars, config, direct,
                   cancelled, hbTask, hbDone, lost, seen, lastDone, cfgPuts,
                   directCalls, hbSent>>

\* update_config called by the loop writes the cached config and returns.
NodeApply(x) ==
    /\ nodePc[x] = "applying"
    /\ config' = [config EXCEPT ![x] = WriteConfig(@, applying[x])]
    /\ lastDone' = [lastDone EXCEPT ![x] = applying[x]]
    /\ applying' = [applying EXCEPT ![x] = None]
    /\ nodePc' = [nodePc EXCEPT ![x] = "loop"]
    /\ Quiet("update_config", {x}, applying[x])
    /\ UNCHANGED <<extVars, now, orchRest, healthTasks, subVars, ifaceCfg, direct,
                   cfgQueue, cancelled, hbTask, hbDone, lost, seen, lastRecv,
                   cfgPuts, directCalls, hbSent>>

\* A caller's update_config(c): the interface is updated first ...
DirectBegin(x, c) ==
    /\ direct[x] = None
    /\ directCalls < MaxDirect
    /\ directCalls' = directCalls + 1
    /\ ifaceCfg' = [ifaceCfg EXCEPT ![x] = c]
    /\ direct' = [direct EXCEPT ![x] = c]
    /\ Quiet("update_config_begin", {x}, c)
    /\ UNCHANGED <<extVars, now, orchRest, healthTasks, subVars, nodePc, config,
                   applying, cfgQueue, cancelled, hbTask, hbDone, lost, seen,
                   lastRecv, lastDone, cfgPuts, hbSent>>

\* ... and the cached config afterwards.
DirectEnd(x) ==
    /\ direct[x] # None
    /\ config' = [config EXCEPT ![x] = WriteConfig(@, direct[x])]
    /\ lastDone' = [lastDone EXCEPT ![x] = direct[x]]
    /\ direct' = [direct EXCEPT ![x] = None]
    /\ Quiet("update_config", {x}, direct[x])
    /\ UNCHANGED <<extVars, now, orchRest, healthTasks, subVars, nodePc, ifaceCfg,
                   applying, cfgQueue, cancelled, hbTask, hbDone, lost, seen,
                   lastRecv, cfgPuts, directCalls, hbSent>>

\* The cancellation token of run is cancelled.
NodeCancel(x) ==
    /\ InLoop(x)
    /\ ~cancelled[x]
    /\ cancelled' = [cancelled EXCEPT ![x] = TRUE]
    /\ Quiet("cancel", {x}, NoArg)
    /\ UNCHANGED <<extVars, now, orchRest, healthTasks, subVars, nodePc, config,
                   ifaceCfg, applying, direct, cfgQueue, hbTask, hbDone, lost,
                   seen, lastRecv, lastDone, cfgPuts, directCalls, hbSent>>

\* The loop sees the cancellation and breaks.
NodeExit(x) ==
    /\ nodePc[x] = "loop"
    /\ cancelled[x]
    /\ nodePc' = [nodePc EXCEPT ![x] = "joining"]
    /\ Quiet("loop_exit", {x}, NoArg)
    /\ UNCHANGED <<extVars, now, orchRest, healthTasks, subVars, config, ifaceCfg,
                   applying, direct, cfgQueue, cancelled, hbTask, hbDone, lost,
                   seen, lastRecv, lastDone, cfgPuts, directCalls, hbSent>>

\* The status task sees the cancellation and breaks.
HbExit(x) ==
    /\ hbTask[x] = "running"
    /\ cancelled[x]
    /\ hbTask' = [hbTask EXCEPT ![x] = "exited"]
    /\ Quiet("status_task_exit", {x}, NoArg)
    /\ UNCHANGED <<extVars, now, orchRest, healthTasks, subVars, nodePc, config,
                   ifaceCfg, applying, direct, cfgQueue, cancelled, hbDone,
                   lost, seen, lastRecv, lastDone, cfgPuts, directCalls, hbSent>>

\* run joins the status task and returns Ok; the config subscriber drops.
NodeJoined(x) ==
    /\ nodePc[x] = "joining"
    /\ hbTask[x] = "exited"
    /\ nodePc' = [nodePc EXCEPT ![x] = "done"]
    /\ cfgQueue' = [cfgQueue EXCEPT ![x] = <<>>]
    /\ Quiet("node_stopped", {x}, NoArg)
    /\ UNCHANGED <<extVars, now, orchRest, healthTasks, subVars, config, ifaceCfg,
                   applying, direct, cancelled, hbTask, hbDone, lost, seen,
                   lastRecv, lastDone, cfgPuts, directCalls, hbSent>>

\* publish_node_config(x, c): the put succeeds, at once or after retries,
\* and Ok is returned; or the retries run out and the error is returned.
OrchPublishConfig(x, c) ==
    /\ cfgPuts < MaxPuts
    /\ cfgPuts' = cfgPuts + 1
    /\ \/ /\ Put(ConfigKey(x), to_json_config(c), 0)
          /\ Quiet("publish_node_config", {x}, c)
       \/ /\ Quiet("publish_node_config_err", {x}, c)
          /\ UNCHANGED <<cfgQueue, healthTasks, sendTasks>>
    /\ UNCHANGED <<extVars, now, orchRest, subRest, nodePc, config, ifaceCfg,
                   applying, direct, cancelled, hbTask, hbDone, lost, seen,
                   lastRecv, lastDone, directCalls, hbSent>>

\* Some agent puts a payload that is no NodeConfig on the config key of x.
PutConfig(x, p) ==
    /\ cfgPuts < MaxPuts
    /\ cfgPuts' = cfgPuts + 1
    /\ Put(ConfigSubKey(x), p, 0)
    /\ Quiet("put_config", {x}, NoArg)
    /\ UNCHANGED <<extVars, now, orchRest, subRest, nodePc, config, ifaceCfg,
                   applying, direct, cancelled, hbTask, hbDone, lost, seen,
                   lastRecv, lastDone, directCalls, hbSent>>

\* The configs pushed and set in this model: for either node one differs
\* from the constructor's config in its value, one in its node_id.
PushedConfigs == {[node_id |-> "n1", config |-> "b"],
                  [node_id |-> "n2", config |-> "a"]}

NextCfg ==
    \/ \E x \in NodeIds : NodeRunStart(x)
    \/ \E x \in NodeIds : NodeRecv(x)
    \/ \E x \in NodeIds : NodeApply(x)
    \/ \E x \in NodeIds, c \in PushedConfigs : DirectBegin(x, c)
    \/ \E x \in NodeIds : DirectEnd(x)
    \/ \E x \in NodeIds, c \in PushedConfigs : OrchPublishConfig(x, c)
    \/ \E x \in NodeIds : PutConfig(x, Garbage)

NextPush ==
    \/ \E x \in NodeIds : NodeRunStart(x)
    \/ \E x \in NodeIds : NodeRecv(x)
    \/ \E x \in NodeIds : NodeApply(x)
    \/ \E x \in NodeIds : NodeCancel(x)
    \/ \E x \in NodeIds : NodeExit(x)
    \/ \E x \in NodeIds : HbExit(x)
    \/ \E x \in NodeIds : NodeJoined(x)
    \/ \E x \in NodeIds, c \in PushedConfigs : OrchPublishConfig(x, c)
    \/ \E x \in NodeIds : PutConfig(x, Garbage)

\* Config samples and calls of update_config by callers, with no run
\* cancelled.  The run loop and the tasks it awaits are polled by the
\* runtime: a sample waiting at the select is taken, an update_config in
\* progress completes.
SpecCfg ==
    /\ Init
    /\ [][NextCfg]_vars
    /\ \A x \in NodeIds : WF_vars(NodeRecv(x)) /\ WF_vars(NodeApply(x))

\* Cancellation of run, without calls of update_config by callers.
SpecPush ==
    /\ Init
    /\ [][NextPush]_vars
    /\ \A x \in NodeIds : WF_vars(NodeRecv(x)) /\ WF_vars(NodeApply(x))

\* One heartbeat period passes.  Every live status task has ticked, every
\* status sample delivered has been processed, and the checker has run.
TickSecond ==
    /\ now < MaxTime
    /\ orchPc = "running" => checked
    /\ healthTasks = EmptyBag
    /\ \A x \in NodeIds : (hbTask[x] = "running" /\ ~cancelled[x]) => hbDone[x]
    /\ now' = now + HEARTBEAT_PERIOD
    /\ checked' = FALSE
    /\ hbDone' = [x \in NodeIds |-> FALSE]
    /\ Quiet("clock", {}, NoArg)
    /\ UNCHANGED <<extVars, orchPc, nodes, callbacks, healthTasks, superseded, lastHb,
                   lastTouch, subVars, nodePc, config, ifaceCfg, applying,
                   direct, cfgQueue, cancelled, hbTask, lost, seen, lastRecv,
                   lastDone, cfgPuts, directCalls, hbSent>>

\* The nodes that are started where the passage of every second is followed.
LiveIds == {"n1"}

NextLive ==
    \/ OrchRun
    \/ \E x \in LiveIds : NodeRunStart(x)
    \/ \E x \in LiveIds : NodeHeartbeat(x)
    \/ \E s \in BagToSet(healthTasks) : HealthTask(s)
    \/ CheckOfflineNodes
    \/ TickSecond
    \/ \E x \in LiveIds : NodeCancel(x)
    \/ \E x \in LiveIds : HbExit(x)

SpecLive == Init /\ [][NextLive]_vars

(***************************************************************************)
(* Subscriber dispatch steps of one agent.                                 *)
(***************************************************************************)
\* create_subscriber(topic, cb) declares its transport subscriber ...
CreateSubscriberDeclare(topic, cb) ==
    /\ pendingSub = <<>>
    /\ subBegun < MaxSubs
    /\ subBegun' = subBegun + 1
    /\ pendingSub' = <<[topic |-> topic, cb |-> cb]>>
    /\ Quiet("declare_subscriber", {}, [topic |-> topic, cb |-> cb])
    /\ UNCHANGED <<extVars, now, orchRest, healthTasks, nodeVars, subscribers,
                   sendTasks, channel, subCalls, published, replacedSub,
                   subCount>>

\* ... and inserts the entry; an entry replaced is dropped, and with it its
\* transport subscriber.
CreateSubscriberInsert ==
    /\ pendingSub # <<>>
    /\ LET topic == pendingSub[1].topic
           cb == pendingSub[1].cb
       IN  /\ subscribers' = insert_subscriber(subscribers, topic, cb)
           /\ replacedSub' = [replacedSub EXCEPT ![topic] =
                                IF topic \in DOMAIN subscribers
                                THEN (@ \cup {subscribers[topic]}) \ {cb}
                                ELSE @ \ {cb}]
           /\ Quiet("create_subscriber", {}, [topic |-> topic, cb |-> cb])
    /\ pendingSub' = <<>>
    /\ subCount' = subCount + 1
    /\ UNCHANGED <<extVars, now, orchRest, healthTasks, nodeVars, sendTasks, channel,
                   subCalls, published, subBegun>>

\* Some agent puts one data sample on key, of at most limit in all; every
\* transport subscriber the key reaches spawns a task holding the sample.
PublishUpTo(key, limit) ==
    /\ Len(published) < limit
    /\ published' = Append(published,
                           [key |-> key, begun |-> subBegun,
                            returned |-> subCount,
                            late |-> dispatchTask = "panicked",
                            full |-> Len(channel) = CHANNEL_CAPACITY])
    /\ Put(key, Json([value |-> "v"]), Len(published) + 1)
    /\ Quiet("put_data", {}, [key |-> key])
    /\ UNCHANGED <<extVars, now, orchRest, nodeRest, subscribers, pendingSub, channel,
                   subCalls, replacedSub, subBegun, subCount>>

PublishData(key) == PublishUpTo(key, MaxSamples)

\* A sample put after the dispatch task has panicked.
PublishLate(key) ==
    /\ dispatchTask = "panicked"
    /\ PublishUpTo(key, MaxSamples + MaxLate)

\* A spawned task sends its sample into the channel; when the receiver is
\* gone the send fails, which is logged.
SendTask(s) ==
    /\ BagIn(s, sendTasks)
    /\ sendTasks' = sendTasks (-) SetToBag({s})
    /\ IF dispatchTask = "panicked"
       THEN channel' = channel
       ELSE /\ Len(channel) < CHANNEL_CAPACITY
            /\ channel' = Append(channel, s)
    /\ Quiet("send", {}, [key |-> s.key])
    /\ UNCHANGED <<extVars, now, orchRest, healthTasks, nodeVars, subscribers,
                   pendingSub, subCalls, published, replacedSub, subBegun,
                   subCount>>

\* handle_subscriber_samples takes the next sample from the channel.
Dispatch ==
    /\ dispatchTask = "running"
    /\ channel # <<>>
    /\ subCalls' = handle_subscriber_samples(subscribers, subCalls,
                                             Head(channel))
    /\ channel' = Tail(channel)
    /\ Quiet("dispatch", {},
             [key |-> Head(channel).key, id |-> Head(channel).id])
    /\ UNCHANGED <<extVars, now, orchRest, healthTasks, nodeVars, subscribers,
                   pendingSub, sendTasks, published, replacedSub, subBegun,
                   subCount>>

\* handle_subscriber_samples takes the next sample and the callback of the
\* entry at topic panics: the entries visited before it, in the map's
\* order, have had their callback called; the panic unwinds the task, whose
\* receiver is dropped with the samples it holds.
DispatchPanic(topic) ==
    /\ dispatchTask = "running"
    /\ channel # <<>>
    /\ \E s \in {Head(channel)} :
          /\ topic \in {t \in DOMAIN subscribers : Intersects(t, s.key)}
          /\ \E before \in SUBSET (DOMAIN subscribers \ {topic}) :
                subCalls' = handle_subscriber_samples(
                                [t \in before \cup {topic} |-> subscribers[t]],
                                subCalls, s)
          /\ Quiet("callback_panic", {}, [key |-> s.key])
    /\ channel' = <<>>
    /\ dispatchTask' = "panicked"
    /\ UNCHANGED <<now, orchRest, healthTasks, nodeVars, subscribers,
                   pendingSub, sendTasks, published, replacedSub, subBegun,
                   subCount, pubVars, retryVars, ret, evVars, orchCancelled,
                   checkTask, restVars>>

NextSub ==
    \/ \E t \in SubTopics, cb \in SubCbs : CreateSubscriberDeclare(t, cb)
    \/ CreateSubscriberInsert
    \/ \E k \in DataKeys : PublishData(k)
    \/ \E s \in BagToSet(sendTasks) : SendTask(s)
    \/ Dispatch

SpecSub == Init /\ [][NextSub]_vars

\* Subscriber dispatch of an agent whose run loop is running, with
\* callbacks that may panic.
NextPanic ==
    \/ NodeRunStart(Agent)
    \/ \E t \in SubTopics, cb \in SubCbs : CreateSubscriberDeclare(t, cb)
    \/ CreateSubscriberInsert
    \/ \E k \in DataKeys : PublishData(k)
    \/ \E k \in DataKeys : PublishLate(k)
    \/ \E s \in BagToSet(sendTasks) : SendTask(s)
    \/ Dispatch
    \/ \E t \in SubTopics : DispatchPanic(t)

SpecPanic == Init /\ [][NextPanic]_vars

(***************************************************************************)
(* Publisher registry steps of one agent.                                  *)
(***************************************************************************)
PubTopics == {"t1", "t2", "t3"}

\* create_publisher(topic): the publisher is declared and inserted, or the
\* error of the declaration is returned.
create_publisher(pubs, topic, declared) ==
    IF declared
    THEN [publishers |-> pubs \cup {topic}, ret |-> "Ok"]
    ELSE [publishers |-> pubs, ret |-> "ZenohError"]

\* publish(topic, data): the put of the topic's publisher, or an error when
\* the registry has no publisher for the topic.
publish(pubs, topic, put_ok) ==
    IF topic \in pubs
    THEN [ret |-> IF put_ok THEN "Ok" ELSE "ZenohError", puts |-> 1]
    ELSE [ret |-> "Other", puts |-> 0]

CreatePublisher(topic) ==
    /\ \E declared \in BOOLEAN :
          LET r == create_publisher(publishers, topic, declared)
          IN  /\ publishers' = r.publishers
              /\ ret' = r.ret
    /\ Quiet("create_publisher", {}, [topic |-> topic])
    /\ UNCHANGED <<now, orchRest, healthTasks, nodeVars, subVars, retryVars,
                   stopVars, pubPuts, evVars, restVars>>

Publish(topic) ==
    /\ pubPuts < MaxPubPuts
    /\ \E put_ok \in BOOLEAN :
          LET r == publish(publishers, topic, put_ok)
          IN  /\ ret' = r.ret
              /\ pubPuts' = pubPuts + r.puts
    /\ fired' = {}
    /\ lastOp' = Op("publish", {},
                    [topic |-> topic, puts |-> pubPuts, pubs |-> publishers],
                    IF topic \in publishers THEN "present" ELSE "absent")
    /\ UNCHANGED <<now, orchRest, healthTasks, nodeVars, subVars, retryVars,
                   stopVars, publishers, evVars, restVars>>

NextPub ==
    \/ \E t \in PubTopics : CreatePublisher(t)
    \/ \E t \in PubTopics : Publish(t)

SpecPub == Init /\ [][NextPub]_vars

(***************************************************************************)
(* publish_node_config, attempt by attempt.  The backoff policy hands out  *)
(* MaxBackoff waits and then gives up.                                     *)
(***************************************************************************)
\* backoff.next_backoff() after `given` waits have been handed out.
next_backoff(given) == given < MaxBackoff

\* Variant: when the policy gives up the call returns Ok.
publish_attempt_swallow(attempts, failures, put_ok) ==
    IF put_ok
    THEN [pc |-> "idle", attempts |-> attempts + 1, failures |-> failures,
          ret |-> "Ok"]
    ELSE IF next_backoff(failures)
    THEN [pc |-> "retrying", attempts |-> attempts + 1,
          failures |-> failures + 1, ret |-> "none"]
    ELSE [pc |-> "idle", attempts |-> attempts + 1,
          failures |-> failures + 1, ret |-> "Ok"]

\* One pass of the loop of publish_node_config: a put that succeeds returns
\* Ok; after one that fails the call sleeps for the wait the policy hands
\* out, or returns PublishError when it hands out none.
publish_attempt(attempts, failures, put_ok) ==
    IF put_ok
    THEN [pc |-> "idle", attempts |-> attempts + 1, failures |-> failures,
          ret |-> "Ok"]
    ELSE IF next_backoff(failures)
    THEN [pc |-> "retrying", attempts |-> attempts + 1,
          failures |-> failures + 1, ret |-> "none"]
    ELSE [pc |-> "idle", attempts |-> attempts + 1,
          failures |-> failures + 1, ret |-> "PublishError"]

\* publish_node_config(x, c) is called.
PublishConfigCall(x, c) ==
    /\ pubPc = "idle"
    /\ cfgPuts < MaxPuts
    /\ cfgPuts' = cfgPuts + 1
    /\ pubPc' = "retrying"
    /\ pubCall' = [node_id |-> x, config |-> c]
    /\ pubAttempts' = 0
    /\ pubFailures' = 0
    /\ ret' = "none"
    /\ Quiet("publish_node_config_call", {x}, c)
    /\ UNCHANGED <<now, orchRest, healthTasks, subVars, pubVars, stopVars, nodePc,
                   config, ifaceCfg, applying, direct, cfgQueue, cancelled,
                   hbTask, hbDone, lost, seen, lastRecv, lastDone,
                   directCalls, hbSent, evVars, restVars>>

\* The call attempts its put.
PublishConfigAttempt ==
    /\ pubPc = "retrying"
    /\ \E put_ok \in BOOLEAN :
          LET r == publish_attempt(pubAttempts, pubFailures, put_ok)
          IN  /\ pubPc' = r.pc
              /\ pubAttempts' = r.attempts
              /\ pubFailures' = r.failures
              /\ ret' = r.ret
              /\ IF put_ok
                 THEN Put(ConfigKey(pubCall.node_id),
                          to_json_config(pubCall.config), 0)
                 ELSE UNCHANGED <<cfgQueue, healthTasks, sendTasks>>
              /\ lastOp' = Op(IF r.pc = "idle" THEN "publish_node_config"
                              ELSE "publish_node_config_retry",
                              {pubCall.node_id}, pubCall.config, r.ret)
    /\ fired' = {}
    /\ UNCHANGED <<now, orchRest, subRest, pubVars, stopVars, pubCall, nodePc, config,
                   ifaceCfg, applying, direct, cancelled, hbTask, hbDone, lost,
                   seen, lastRecv, lastDone, cfgPuts, directCalls, hbSent, evVars, restVars>>

NextRetry ==
    \/ \E x \in NodeIds : NodeRunStart(x)
    \/ \E x \in NodeIds : NodeRecv(x)
    \/ \E x \in NodeIds : NodeApply(x)
    \/ \E x \in NodeIds, c \in PushedConfigs : PublishConfigCall(x, c)
    \/ PublishConfigAttempt

\* The call is polled by the runtime: every wait ends and the next put is
\* attempted.
SpecRetry ==
    /\ Init
    /\ [][NextRetry]_vars
    /\ WF_vars(PublishConfigAttempt)
    /\ \A x \in NodeIds : WF_vars(NodeRecv(x)) /\ WF_vars(NodeApply(x))

(***************************************************************************)
(* Orchestrator::run after cancellation, step by step.                     *)
(***************************************************************************)
\* The cancellation token of Orchestrator::run is cancelled.
OrchCancel ==
    /\ orchPc = "running"
    /\ ~orchCancelled
    /\ orchCancelled' = TRUE
    /\ Quiet("cancel", {}, NoArg)
    /\ UNCHANGED <<now, orchRest, healthTasks, nodeVars, subVars, pubVars,
                   retryVars, ret, checkTask, dispatchTask, evVars, restVars>>

\* run sees the cancellation and undeclares the status subscriber; the
\* error of the undeclaration is returned.
OrchUnsubscribe ==
    /\ orchPc = "running"
    /\ orchCancelled
    /\ \/ orchPc' = "joining" /\ ret' = "none"
       \/ orchPc' = "failed" /\ ret' = "ZenohError"
    /\ Quiet("unsubscribe_from_node_statuses", {}, NoArg)
    /\ UNCHANGED <<now, nodes, callbacks, healthTasks, checked, superseded,
                   lastHb, lastTouch, nodeVars, subVars, pubVars, retryVars,
                   stopVars, evVars, restVars>>

\* The checker task sees the cancellation and breaks.
CheckerExit ==
    /\ checkTask = "running"
    /\ orchCancelled
    /\ checkTask' = "exited"
    /\ Quiet("checker_exit", {}, NoArg)
    /\ UNCHANGED <<now, orchRest, healthTasks, nodeVars, subVars, pubVars,
                   retryVars, ret, orchCancelled, dispatchTask, evVars, restVars>>

\* run joins the checker task and returns Ok.
OrchJoined ==
    /\ orchPc = "joining"
    /\ checkTask = "exited"
    /\ orchPc' = "stopped"
    /\ ret' = "Ok"
    /\ Quiet("orchestrator_stopped", {}, NoArg)
    /\ UNCHANGED <<now, nodes, callbacks, healthTasks, checked, superseded,
                   lastHb, lastTouch, nodeVars, subVars, pubVars, retryVars,
                   stopVars, evVars, restVars>>


NextStop ==
    \/ NodeRunStart(Agent)
    \/ NodeRecv(Agent)
    \/ NodeApply(Agent)
    \/ NodeCancel(Agent)
    \/ NodeExit(Agent)
    \/ HbExit(Agent)
    \/ NodeJoined(Agent)
    \/ \E c \in PushedConfigs : OrchPublishConfig(Agent, c)
    \/ PutConfig(Agent, Garbage)
    \/ OrchRun
    \/ OrchCancel
    \/ OrchUnsubscribe
    \/ CheckerExit
    \/ OrchJoined

\* Every task that can run is polled by the runtime.
SpecStop ==
    /\ Init
    /\ [][NextStop]_vars
    /\ WF_vars(NodeRecv(Agent)) /\ WF_vars(NodeApply(Agent))
    /\ WF_vars(NodeExit(Agent)) /\ WF_vars(HbExit(Agent))
    /\ WF_vars(NodeJoined(Agent))
    /\ WF_vars(OrchUnsubscribe) /\ WF_vars(CheckerExit) /\ WF_vars(OrchJoined)

\* Cancellation of an agent that has created subscribers, without config
\* samples.
NextQuiesce ==
    \/ NodeRunStart(Agent)
    \/ NodeCancel(Agent)
    \/ NodeExit(Agent)
    \/ HbExit(Agent)
    \/ NodeJoined(Agent)
    \/ OrchRun
    \/ OrchCancel
    \/ OrchUnsubscribe
    \/ CheckerExit
    \/ OrchJoined
    \/ \E t \in SubTopics, cb \in SubCbs : CreateSubscriberDeclare(t, cb)
    \/ CreateSubscriberInsert

SpecQuiesce == Init /\ [][NextQuiesce]_vars

(***************************************************************************)
(* Node::run from its start: the initial status, the status task and the   *)
(* config samples of one node, with the Orchestrator listening.            *)
(***************************************************************************)
NextBoot ==
    \/ OrchRun
    \/ NodeRunStart(Agent)
    \/ NodeHeartbeat(Agent)
    \/ \E s \in BagToSet(healthTasks) : HealthTask(s)
    \/ \E c \in PushedConfigs : OrchPublishConfig(Agent, c)
    \/ NodeRecv(Agent)
    \/ NodeApply(Agent)

SpecBoot == Init /\ [][NextBoot]_vars

(***************************************************************************)
(* Construction of a Node and the events put below its event key.          *)
(***************************************************************************)
TypeNames == {"generic", "mock", "unknown"}
Interfaces == {"none", "given"}
EventNames == {"e1", "e2"}

\* The type names a plugin factory is registered for: the crate declares no
\* plugin module, Node::new consults no registry.
Factories == {}

\* Node::new(id, node_type, config, session, interface): an interface that
\* is not given is a GenericNode of the config; the Node is returned.
Node_new(node_type, interface) ==
    [ret |-> "Ok", node_type |-> node_type,
     interface |-> IF interface = "none" THEN "generic" ELSE interface]

\* A call of Node::new.
NodeNew(node_type, interface) ==
    /\ built' = Node_new(node_type, interface)
    /\ Quiet("node_new", {},
             [node_type |-> node_type, interface |-> interface])
    /\ UNCHANGED <<now, orchRest, healthTasks, nodeVars, subVars,
                   pubVars, retryVars, stopVars, ret, eventsPut, eventCalls, restVars>>

\* Some agent puts a sample on node/<x>/event/<name>.  It is delivered to
\* the subscribers declared that its key reaches; run of Node x has declared
\* its config subscriber only, and no step of Node calls handle_event.
PutEvent(x, name) ==
    /\ eventsPut[x] < MaxEvents
    /\ InLoop(x)
    /\ eventsPut' = [eventsPut EXCEPT ![x] = @ + 1]
    /\ Put(EventKey(x, name), Json([value |-> "v"]), 0)
    /\ Quiet("put_event", {x}, [name |-> name])
    /\ UNCHANGED <<now, orchRest, subRest, nodeRest, pubVars, retryVars,
                   stopVars, ret, built, eventCalls, restVars>>

NextIface ==
    \/ \E t \in TypeNames, i \in Interfaces : NodeNew(t, i)
    \/ NodeRunStart(Agent)
    \/ \E n \in EventNames : PutEvent(Agent, n)
    \/ \E c \in PushedConfigs : OrchPublishConfig(Agent, c)
    \/ NodeRecv(Agent)
    \/ NodeApply(Agent)

SpecIface == Init /\ [][NextIface]_vars

(***************************************************************************)
(* publish_node_config while Orchestrator::run is cancelled.  The call     *)
(* takes node_id and config only: it holds no cancellation token, and its  *)
(* wait between attempts is a plain sleep.                                 *)
(***************************************************************************)
NextRetryCancel ==
    \/ OrchRun
    \/ OrchCancel
    \/ NodeRunStart(Agent)
    \/ NodeRecv(Agent)
    \/ NodeApply(Agent)
    \/ \E c \in PushedConfigs : PublishConfigCall(Agent, c)
    \/ PublishConfigAttempt

SpecRetryCancel ==
    /\ Init
    /\ [][NextRetryCancel]_vars
    /\ WF_vars(PublishConfigAttempt)
    /\ WF_vars(NodeRecv(Agent)) /\ WF_vars(NodeApply(Agent))

(***************************************************************************)
(* Steps of the plugin registry.  An insertion into the map is not one     *)
(* memory write: between its first and its last the entry is partial.      *)
(***************************************************************************)
\* register_node_type(t, f) takes the write lock ...
RegisterLock(t, f) ==
    /\ regCall.pc = "idle"
    /\ Len(regLog[t]) < MaxRegs
    /\ write_admitted(rwlock)
    /\ rwlock' = [rwlock EXCEPT !.writer = TRUE]
    /\ regCall' = [pc |-> "locked", type |-> t, factory |-> f]
    /\ Quiet("register_lock", {}, [type |-> t, factory |-> f])
    /\ UNCHANGED <<now, orchRest, healthTasks, nodeVars, subVars, pubVars,
                   retryVars, stopVars, ret, evVars, lockVars, histVars, factories, lookup,
                   created, regLog>>

\* The map as a reader finds it: the entry of an insertion under way is
\* partial.
Visible(facs, call) ==
    IF call.pc = "inserting" THEN Upsert(facs, call.type, "partial")
    ELSE facs

\* ... starts the insertion ...
RegisterInsert ==
    /\ regCall.pc = "locked"
    /\ regCall' = [regCall EXCEPT !.pc = "inserting"]
    /\ Quiet("register_insert", {}, [type |-> regCall.type])
    /\ UNCHANGED <<now, orchRest, healthTasks, nodeVars, subVars, pubVars,
                   retryVars, stopVars, ret, evVars, lockVars, histVars, factories, rwlock,
                   lookup, created, regLog>>

\* ... completes it and releases the lock.
RegisterDone ==
    /\ regCall.pc = "inserting"
    /\ factories' = register(factories, regCall.type, regCall.factory)
    /\ regLog' = [regLog EXCEPT ![regCall.type] = Append(@, regCall.factory)]
    /\ rwlock' = [rwlock EXCEPT !.writer = FALSE]
    /\ regCall' = NoCall
    /\ Quiet("register_node_type", {},
             [type |-> regCall.type, factory |-> regCall.factory])
    /\ UNCHANGED <<now, orchRest, healthTasks, nodeVars, subVars, pubVars,
                   retryVars, stopVars, ret, evVars, lockVars, histVars, lookup, created>>

\* create_node(t, config) takes the read lock ...
LookupLock(t) ==
    /\ lookup.pc = "idle"
    /\ read_admitted(rwlock)
    /\ rwlock' = [rwlock EXCEPT !.readers = @ + 1]
    /\ lookup' = [pc |-> "locked", type |-> t, factory |-> "none"]
    /\ Quiet("create_node_lock", {}, [type |-> t])
    /\ UNCHANGED <<now, orchRest, healthTasks, nodeVars, subVars, pubVars,
                   retryVars, stopVars, ret, evVars, lockVars, histVars, factories, regCall,
                   created, regLog>>

\* ... looks the type up, has the factory found build the interface, and
\* releases the lock.
LookupDone(c) ==
    /\ lookup.pc = "locked"
    /\ created' = create_node(Visible(factories, regCall), lookup.type, c)
    /\ rwlock' = [rwlock EXCEPT !.readers = @ - 1]
    /\ lookup' = NoCall
    /\ Quiet("create_node", {}, [type |-> lookup.type, config |-> c])
    /\ UNCHANGED <<now, orchRest, healthTasks, nodeVars, subVars, pubVars,
                   retryVars, stopVars, ret, evVars, lockVars, histVars, factories, regCall,
                   regLog>>

NextRegistry ==
    \/ \E t \in RegTypes, f \in FactoryIds : RegisterLock(t, f)
    \/ RegisterInsert
    \/ RegisterDone
    \/ \E t \in RegTypes : LookupLock(t)
    \/ \E c \in PushedConfigs : LookupDone(c)

SpecRegistry == Init /\ [][NextRegistry]_vars

(***************************************************************************)
(* Orchestrator::check_node_health: every node of the map is queried on    *)
(* node/<id>/status.  outcome gives, per node, the NodeData of the reply,  *)
(* or Err when the query, its reply or the reply's text fails.             *)
(***************************************************************************)
check_node_health(nds, cbs, outcome) ==
    [nodes |-> [x \in DOMAIN nds |->
                  IF outcome[x].ok
                  THEN [nds[x] EXCEPT !.last_value =
                           IF outcome[x].val.status # "online"
                           THEN [outcome[x].val EXCEPT !.status = "offline"]
                           ELSE outcome[x].val]
                  ELSE [nds[x] EXCEPT !.last_value.status = "unknown"]],
     fired |-> {}]

\* The replies a query for node x may get.
HealthReplies(x) ==
    {Err} \cup {Ok(update_status(x, st, 0)) : st \in Statuses \cup {"unknown"}}

CheckNodeHealth(outcome) ==
    LET r == check_node_health(nodes, callbacks, outcome)
    IN  /\ nodes' = r.nodes
        /\ fired' = r.fired
        /\ lastOp' = Op("check_node_health",
                        {x \in DOMAIN nodes : r.nodes[x] # nodes[x]},
                        [before |-> [x \in DOMAIN nodes |->
                                        nodes[x].last_value.status]],
                        "none")
        /\ UNCHANGED <<extVars, now, orchPc, callbacks, healthTasks, checked,
                       superseded, lastHb, lastTouch, nodeVars, subVars>>

\* The outcomes of one pass over the node map.
HealthOutcomes ==
    {o \in [DOMAIN nodes -> UNION {HealthReplies(x) : x \in NodeIds}] :
        \A x \in DOMAIN nodes : o[x] \in HealthReplies(x)}

NextHealth ==
    \/ OrchRun
    \/ \E x \in NodeIds, st \in Statuses \cup {"unknown"} :
          StatusSample(x, to_json(update_status(x, st, 0)))
    \/ \E x \in NodeIds, cb \in CbIds : RegisterCallback(x, cb)
    \/ \E o \in HealthOutcomes : CheckNodeHealth(o)

SpecHealth == Init /\ [][NextHealth]_vars

(***************************************************************************)
(* The Orchestrator's view of one node, second by second.                  *)
(***************************************************************************)
NextTicks ==
    \/ OrchRun
    \/ \E st \in Statuses :
          StatusSample(Agent, to_json(update_status(Agent, st, 0)))
    \/ \E nd \in {d \in NodeData : d.node_id = Agent} : UpdateNodeState(nd)
    \/ \E cb \in CbIds : RegisterCallback(Agent, cb)
    \/ CheckOfflineNodes
    \/ \E o \in HealthOutcomes : CheckNodeHealth(o)
    \/ TickSecond

SpecTicks == Init /\ [][NextTicks]_vars

(***************************************************************************)
(* The heartbeats of two Nodes on their way to the Orchestrator.           *)
(***************************************************************************)
NextBeat ==
    \/ OrchRun
    \/ \E x \in NodeIds : NodeRunStart(x)
    \/ \E x \in NodeIds : NodeHeartbeat(x)
    \/ \E s \in BagToSet(healthTasks) : HealthTask(s)

SpecBeat == Init /\ [][NextBeat]_vars

(***************************************************************************)
(* Status samples, well-formed and malformed, on their way to the          *)
(* Orchestrator.                                                           *)
(***************************************************************************)
\* Payloads that are no NodeData: a text that is no JSON, and a JSON object
\* without node_type and timestamp.
BadPayloads(x) == {Garbage, Json([node_id |-> x])}

\* Some agent puts payload p on fabric/<x>/status.
PutStatus(x, p) ==
    /\ BagCardinality(healthTasks) < MaxInFlight
    /\ Put(StatusKey(x), p, 0)
    /\ Quiet("put_status", {x}, NoArg)
    /\ UNCHANGED <<extVars, now, orchRest, subRest, nodeRest>>

NextBad ==
    \/ OrchRun
    \/ \E x \in NodeIds : \E p \in BadPayloads(x) : PutStatus(x, p)
    \/ \E x \in NodeIds, st \in Statuses :
          PutStatus(x, to_json(update_status(x, st, 0)))
    \/ \E s \in BagToSet(healthTasks) : HealthTask(s)
    \/ \E x \in NodeIds, cb \in CbIds : RegisterCallback(x, cb)
    \/ ClockAdvance(STALENESS_THRESHOLD)

SpecBad == Init /\ [][NextBad]_vars

(***************************************************************************)
(* The three activities of one Node: the status task spawned by run, the   *)
(* select loop of run, and the dispatch task spawned by Node::new.         *)
(***************************************************************************)
NextSerial ==
    \/ NodeRunStart(Agent)
    \/ NodeHeartbeat(Agent)
    \/ OrchPublishConfig(Agent, [node_id |-> Agent, config |-> "b"])
    \/ NodeRecv(Agent)
    \/ NodeApply(Agent)
    \/ \E cb \in SubCbs : CreateSubscriberDeclare(DataKey(Agent), cb)
    \/ CreateSubscriberInsert
    \/ PublishData(DataKey(Agent))
    \/ \E s \in BagToSet(sendTasks) : SendTask(s)
    \/ Dispatch

SpecSerial == Init /\ [][NextSerial]_vars

(***************************************************************************)
(* The Orchestrator's operations on the node map, lock by lock.  Each of   *)
(* update_node_health, update_node_state and check_offline_nodes takes the *)
(* guard of self.nodes, changes the map and invokes the callbacks in the   *)
(* scope of that guard, which is dropped when the function returns.        *)
(***************************************************************************)
lockRest == <<pubVars, retryVars, stopVars, ret, evVars, regVars, histVars,
              nodeVars, subVars>>

\* The arguments of the calls: a status sample, a NodeData, a node id and a
\* callback, none.
OpArgs(o) ==
    IF o = "update_node_health"
    THEN {[key |-> StatusKey(Agent), payload |-> p] :
             p \in {to_json(update_status(Agent, "online", 0)), Garbage}}
    ELSE IF o = "update_node_state"
    THEN {[nd |-> update_status(Agent, st, 0)] : st \in Statuses}
    ELSE IF o = "register_callback"
    THEN {[node_id |-> Agent, cb |-> cb] : cb \in CbIds}
    ELSE {NoArg}

\* Who holds lock l, and the locks with l taken by o, or released by o.
Holder(l) == IF l = "nodes" THEN nodesLock ELSE cbLock

Acquire(l, o) ==
    /\ Holder(l) = "free"
    /\ nodesLock' = IF l = "nodes" THEN o ELSE nodesLock
    /\ cbLock' = IF l = "callbacks" THEN o ELSE cbLock

Release(o) ==
    /\ nodesLock' = IF nodesLock = o THEN "free" ELSE nodesLock
    /\ cbLock' = IF cbLock = o THEN "free" ELSE cbLock

\* Whether the call of o in progress goes on to its second lock: the
\* callbacks are locked when a NodeData was decoded, when a node is stale.
NeedsSecond(o) ==
    /\ Len(lock_order(o)) = 2
    /\ o = "update_node_health" => from_json(opArg[o].payload).ok
    /\ o = "check_offline_nodes" =>
          \E x \in DOMAIN nodes : IsStale(nodes[x], now)

\* The operation is called: a status sample's task is spawned, the checker's
\* interval ticks, or an embedder calls the method.
OpCall(o, arg) ==
    /\ opPc[o] = "idle"
    /\ o = "update_node_health" => StatusSubDeclared
    /\ o = "check_offline_nodes" => (checkTask = "running" /\ ~checked)
    /\ opPc' = [opPc EXCEPT ![o] = "waiting"]
    /\ opArg' = [opArg EXCEPT ![o] = arg]
    /\ Quiet("call", {}, [name |-> o])
    /\ UNCHANGED <<lockRest, now, orchRest, healthTasks, nodesLock, cbLock>>

\* update_node_health of a payload that is no JSON returns without
\* touching the map.
OpNoJson ==
    LET o == "update_node_health"
    IN  /\ opPc[o] = "waiting"
        /\ ~opArg[o].payload.json
        /\ opPc' = [opPc EXCEPT ![o] = "idle"]
        /\ opArg' = [opArg EXCEPT ![o] = NoArg]
        /\ Processed(opArg[o].key, opArg[o].payload)
        /\ UNCHANGED <<lockRest, now, orchPc, callbacks, healthTasks, checked,
                       superseded, nodesLock, cbLock>>

\* The first lock().await of the operation returns the guard.
OpLock(o) ==
    /\ opPc[o] = "waiting"
    /\ o = "update_node_health" => opArg[o].payload.json
    /\ Acquire(lock_order(o)[1], o)
    /\ opPc' = [opPc EXCEPT ![o] = "locked"]
    /\ Quiet("lock", {}, [name |-> o])
    /\ UNCHANGED <<lockRest, now, orchRest, healthTasks, opArg>>

\* The second lock().await returns the guard, the first guard alive.
OpLockSecond(o) ==
    /\ opPc[o] = "locked"
    /\ NeedsSecond(o)
    /\ Acquire(lock_order(o)[2], o)
    /\ opPc' = [opPc EXCEPT ![o] = "both"]
    /\ Quiet("lock_second", {}, [name |-> o])
    /\ UNCHANGED <<lockRest, now, orchRest, healthTasks, opArg>>

\* The maps are changed and the callbacks are invoked, the guards alive.
OpBody(o) ==
    /\ \/ opPc[o] = "both"
       \/ opPc[o] = "locked" /\ ~NeedsSecond(o)
    /\ opPc' = [opPc EXCEPT ![o] = "called"]
    /\ IF o = "update_node_health"
       THEN /\ Processed(opArg[o].key, opArg[o].payload)
            /\ UNCHANGED <<checked, callbacks, superseded>>
       ELSE IF o = "update_node_state"
       THEN LET nd == opArg[o].nd
                r == update_node_state(nodes, callbacks, nd, now)
            IN  /\ nodes' = r.nodes
                /\ fired' = r.fired
                /\ lastOp' = Op("update_node_state", {nd.node_id}, nd,
                                StatusOf(nodes, nd.node_id))
                /\ lastTouch' = [lastTouch EXCEPT ![nd.node_id] = now]
                /\ UNCHANGED <<lastHb, checked, callbacks, superseded>>
       ELSE IF o = "check_offline_nodes"
       THEN LET r == check_offline_nodes(nodes, callbacks, now)
            IN  /\ nodes' = r.nodes
                /\ fired' = r.fired
                /\ lastOp' = Op("check_offline_nodes",
                                {x \in DOMAIN nodes : r.nodes[x] # nodes[x]},
                                [before |-> [x \in DOMAIN nodes |->
                                                nodes[x].last_value.status]],
                                "none")
                /\ checked' = TRUE
                /\ UNCHANGED <<lastHb, lastTouch, callbacks, superseded>>
       ELSE IF o = "register_callback"
       THEN LET x == opArg[o].node_id
                cb == opArg[o].cb
            IN  /\ callbacks' = register_callback(callbacks, x, cb)
                /\ superseded' = [superseded EXCEPT ![x] =
                                    IF x \in DOMAIN callbacks
                                    THEN (@ \cup {callbacks[x]}) \ {cb}
                                    ELSE @ \ {cb}]
                /\ Quiet("register_callback", {x}, [cb |-> cb])
                /\ UNCHANGED <<nodes, lastHb, lastTouch, checked>>
       ELSE /\ Quiet("get_nodes", {}, NoArg)
            /\ UNCHANGED <<nodes, lastHb, lastTouch, checked, callbacks,
                           superseded>>
    /\ UNCHANGED <<lockRest, now, orchPc, healthTasks, nodesLock, cbLock,
                   opArg>>

\* The function returns and its guards are dropped.
OpReturn(o) ==
    /\ opPc[o] = "called"
    /\ Release(o)
    /\ opPc' = [opPc EXCEPT ![o] = "idle"]
    /\ opArg' = [opArg EXCEPT ![o] = NoArg]
    /\ Quiet("return", {}, [name |-> o])
    /\ UNCHANGED <<lockRest, now, orchRest, healthTasks>>

\* The operations that invoke callbacks.
NextLock ==
    \/ OrchRun
    \/ \E cb \in CbIds : RegisterCallback(Agent, cb)
    \/ \E o \in CallbackOps : \E arg \in OpArgs(o) : OpCall(o, arg)
    \/ OpNoJson
    \/ \E o \in CallbackOps : OpLock(o)
    \/ \E o \in CallbackOps : OpLockSecond(o)
    \/ \E o \in CallbackOps : OpBody(o)
    \/ \E o \in CallbackOps : OpReturn(o)
    \/ ClockAdvance(STALENESS_THRESHOLD + CHECK_PERIOD)

SpecLock == Init /\ [][NextLock]_vars

(***************************************************************************)
(* A burst of samples for one subscriber of an agent, as many as fill the  *)
(* dispatch channel and one more.                                          *)
(***************************************************************************)
\* The agent creates its one subscriber.
BurstSubscribe(topic, cb) ==
    /\ subBegun = 0
    /\ CreateSubscriberDeclare(topic, cb)

\* The transport delivers a sample to the subscriber once the task spawned
\* for the sample before it has sent, or waits to send.
BurstPut(key) ==
    /\ subCount > 0
    /\ \/ sendTasks = EmptyBag
       \/ Len(channel) = CHANNEL_CAPACITY /\ BagCardinality(sendTasks) < 2
    /\ PublishUpTo(key, MaxBurst)

NextFull ==
    \/ BurstSubscribe(DataKey(Agent), "cb1")
    \/ CreateSubscriberInsert
    \/ BurstPut(DataKey(Agent))
    \/ \E s \in BagToSet(sendTasks) : SendTask(s)
    \/ Dispatch

SpecFull == Init /\ [][NextFull]_vars

(***************************************************************************)
(* All the operations on the node map and the callback map, each with the  *)
(* locks it takes.                                                         *)
(***************************************************************************)
NextOrder ==
    \/ OrchRun
    \/ \E o \in LockOps : \E arg \in OpArgs(o) : OpCall(o, arg)
    \/ OpNoJson
    \/ \E o \in LockOps : OpLock(o)
    \/ \E o \in LockOps : OpLockSecond(o)
    \/ \E o \in LockOps : OpBody(o)
    \/ \E o \in LockOps : OpReturn(o)
    \/ ClockAdvance(STALENESS_THRESHOLD + CHECK_PERIOD)

SpecOrder == Init /\ [][NextOrder]_vars

(***************************************************************************)
(* Node::run before its loop, step by step, with an Orchestrator that      *)
(* pushes a config to a node when it sees the node online.                 *)
(***************************************************************************)
\* One step of the prologue of run of node x: the declaration of the config
\* subscriber, or the publication of the initial status.
PrologueStep(x, step) ==
    IF step = "update_status"
    THEN /\ PublishStatus(x, initial_status(x, now)[1])
         /\ lost' = [lost EXCEPT ![x] = ~StatusSubDeclared]
    ELSE UNCHANGED <<cfgQueue, healthTasks, sendTasks, hbSent, lost>>

\* run takes the first step of its prologue, or returns its error.
NodeRunFirst(x) ==
    /\ nodePc[x] = "new"
    /\ \/ /\ nodePc' = [nodePc EXCEPT ![x] = "starting"]
          /\ PrologueStep(x, run_prologue[1])
          /\ Quiet("node_run_begin", {x}, [step |-> run_prologue[1]])
       \/ /\ nodePc' = [nodePc EXCEPT ![x] = "failed"]
          /\ Quiet("node_run_err", {x}, [cause |-> run_prologue[1]])
          /\ UNCHANGED <<cfgQueue, healthTasks, sendTasks, hbSent, lost>>
    /\ UNCHANGED <<extVars, now, orchRest, subRest, config, ifaceCfg, applying,
                   direct, cancelled, hbTask, hbDone, seen, lastRecv,
                   lastDone, cfgPuts, directCalls>>

\* run takes the second step, spawns the status task and enters its loop,
\* or returns the error of the step.
NodeRunSecond(x) ==
    /\ nodePc[x] = "starting"
    /\ \/ /\ nodePc' = [nodePc EXCEPT ![x] = "loop"]
          /\ hbTask' = [hbTask EXCEPT ![x] = "running"]
          /\ hbDone' = [hbDone EXCEPT ![x] = FALSE]
          /\ PrologueStep(x, run_prologue[2])
          /\ Quiet("node_run", {x}, NoArg)
       \/ /\ nodePc' = [nodePc EXCEPT ![x] = "failed"]
          /\ Quiet("node_run_err", {x}, [cause |-> run_prologue[2]])
          /\ cfgQueue' = [cfgQueue EXCEPT ![x] = <<>>]
          /\ UNCHANGED <<healthTasks, sendTasks, hbSent, lost, hbTask, hbDone>>
    /\ UNCHANGED <<extVars, now, orchRest, subRest, config, ifaceCfg, applying,
                   direct, cancelled, seen, lastRecv, lastDone, cfgPuts,
                   directCalls>>

\* The Orchestrator's embedder has seen node x online and sends it its
\* config, which the node has not been sent yet.
ReactPush(x, c) ==
    /\ x \in DOMAIN nodes
    /\ nodes[x].last_value.status = "online"
    /\ cfgQueue[x] = <<>>
    /\ lastRecv[x] = None
    /\ OrchPublishConfig(x, c)

NextReact ==
    \/ OrchRun
    \/ \E x \in NodeIds : NodeRunFirst(x)
    \/ \E x \in NodeIds : NodeRunSecond(x)
    \/ \E x \in NodeIds : NodeHeartbeat(x)
    \/ \E s \in BagToSet(healthTasks) : HealthTask(s)
    \/ \E x \in NodeIds : ReactPush(x, [node_id |-> x, config |-> "b"])
    \/ \E x \in NodeIds : NodeRecv(x)
    \/ \E x \in NodeIds : NodeApply(x)

SpecReact == Init /\ [][NextReact]_vars

(***************************************************************************)
(* Node::run to its return, by cancellation or by the error of a config    *)
(* sample, with the status task it spawned.                                *)
(***************************************************************************)
NextReturn ==
    \/ \E x \in NodeIds : NodeRunStart(x)
    \/ \E x \in NodeIds : NodeHeartbeat(x)
    \/ \E x \in NodeIds : PutConfig(x, Garbage)
    \/ \E x \in NodeIds : NodeRecv(x)
    \/ \E x \in NodeIds : NodeCancel(x)
    \/ \E x \in NodeIds : NodeExit(x)
    \/ \E x \in NodeIds : HbExit(x)
    \/ \E x \in NodeIds : NodeJoined(x)

SpecReturn == Init /\ [][NextReturn]_vars

(***************************************************************************)
(* Heartbeats of the nodes on their way through the tasks the status       *)
(* subscriber spawns.                                                      *)
(***************************************************************************)
\* The transport hands a heartbeat of x to the status subscriber, whose
\* callback spawns the task that will process it.
DeliverStatus(x, p) ==
    /\ StatusSubDeclared
    /\ Len(delivered[x]) < MaxInFlight
    /\ Put(StatusKey(x), p, 0)
    /\ delivered' = [delivered EXCEPT ![x] = Append(@, p)]
    /\ Quiet("deliver_status", {x}, NoArg)
    /\ UNCHANGED <<pubVars, retryVars, stopVars, ret, evVars, regVars,
                   lockVars, now, orchRest, subRest, nodeRest>>

NextDeliver ==
    \/ OrchRun
    \/ \E x \in NodeIds, st \in Statuses :
          DeliverStatus(x, to_json(update_status(x, st, 0)))
    \/ \E s \in BagToSet(healthTasks) : HealthTask(s)
    \/ RegisterCallback(Agent, "cb1")

SpecDeliver == Init /\ [][NextDeliver]_vars

(***************************************************************************)
(* Several samples for the subscribers of an agent, each in the task the   *)
(* transport callback spawned for it.                                      *)
(***************************************************************************)
NextSeq ==
    \/ \E t \in SubTopics, cb \in SubCbs : BurstSubscribe(t, cb)
    \/ CreateSubscriberInsert
    \/ PublishUpTo(DataKey(Agent), MaxSamples + MaxLate)
    \/ \E s \in BagToSet(sendTasks) : SendTask(s)
    \/ Dispatch

SpecSeq == Init /\ [][NextSeq]_vars

(***************************************************************************)
(* The node map filled by the heartbeats of running Nodes and by calls of  *)
(* update_node_state.                                                      *)
(***************************************************************************)
NextKeys ==
    \/ OrchRun
    \/ \E x \in NodeIds : NodeRunStart(x)
    \/ \E x \in NodeIds : NodeHeartbeat(x)
    \/ \E s \in BagToSet(healthTasks) : HealthTask(s)
    \/ \E x \in NodeIds, st \in Statuses :
          UpdateNodeState(update_status(x, st, 0))
    \/ CheckOfflineNodes
    \/ ClockAdvance(STALENESS_THRESHOLD + CHECK_PERIOD)

SpecKeys == Init /\ [][NextKeys]_vars

(***************************************************************************)
(* The two config-push operations of the Orchestrator and a running Node.  *)
(***************************************************************************)
\* The key update_node_config puts on.
UpdateConfigKey(id) == <<"fabric", id, "config">>

\* update_node_config(x, c), c a NodeConfig as JSON value: the put succeeds,
\* at once or after retries, and Ok is returned; or the retries run out and
\* the error is returned.
OrchUpdateNodeConfig(x, c) ==
    /\ cfgPuts < MaxPuts
    /\ cfgPuts' = cfgPuts + 1
    /\ \/ /\ Put(UpdateConfigKey(x), to_json_config(c), 0)
          /\ Quiet("update_node_config", {x}, c)
       \/ /\ Quiet("update_node_config_err", {x}, c)
          /\ UNCHANGED <<cfgQueue, healthTasks, sendTasks>>
    /\ UNCHANGED <<extVars, now, orchRest, subRest, nodePc, config, ifaceCfg,
                   applying, direct, cancelled, hbTask, hbDone, lost, seen,
                   lastRecv, lastDone, directCalls, hbSent>>

NextBoth ==
    \/ \E x \in NodeIds : NodeRunStart(x)
    \/ \E x \in NodeIds, c \in PushedConfigs : OrchPublishConfig(x, c)
    \/ \E x \in NodeIds, c \in PushedConfigs : OrchUpdateNodeConfig(x, c)
    \/ \E x \in NodeIds : NodeRecv(x)
    \/ \E x \in NodeIds : NodeApply(x)

SpecBoth == Init /\ [][NextBoth]_vars

(***************************************************************************)
(* Properties of the Orchestrator's liveness tracking (SpecOrch).          *)
(***************************************************************************)
\* The invocation of the callback registered for node x with argument d.
Called(x, d) == [node |-> x, cb |-> callbacks[x], arg |-> d, times |-> 1]

\* C3 as stated: once the checker has run, no node is online whose last
\* processed heartbeat is more than STALENESS_THRESHOLD old.
C3_Stated ==
    (orchPc = "running" /\ checked) =>
        \A x \in DOMAIN nodes :
            (lastHb[x] >= 0 /\ now - lastHb[x] > STALENESS_THRESHOLD)
                => nodes[x].last_value.status # "online"

\* C3: once the checker has run, no node is online whose last update
\* (processed heartbeat or update_node_state) is more than
\* STALENESS_THRESHOLD old; every node the checker changed is offline, and a
\* callback registered for it was invoked once with its NodeData, status
\* "offline".
C3_Staleness ==
    /\ (orchPc = "running" /\ checked) =>
          \A x \in DOMAIN nodes :
              now - lastTouch[x] > STALENESS_THRESHOLD
                  => nodes[x].last_value.status # "online"
    /\ lastOp.op = "check_offline_nodes" =>
          \A x \in lastOp.ids :
              /\ nodes[x].last_value.status = "offline"
              /\ x \in DOMAIN callbacks =>
                    /\ Called(x, nodes[x].last_value) \in fired
                    /\ \A f \in fired : f.node = x => f = Called(x, f.arg)

C3_Witness ==
    /\ lastOp.op = "check_offline_nodes"
    /\ \E x \in lastOp.ids :
          /\ x \in DOMAIN callbacks
          /\ now - lastHb[x] > STALENESS_THRESHOLD
          /\ lastHb[x] >= 0

\* C4: a heartbeat processed for a node that was offline becomes its
\* last_value with the status it declares, sets last_update to the time of
\* processing and invokes the node's callback once with it; every node the
\* staleness checker changes ends offline.
C4_Recovery ==
    /\ (lastOp.op = "heartbeat" /\ lastOp.prev = "offline") =>
          \A x \in lastOp.ids :
              /\ x \in DOMAIN nodes
              /\ nodes[x].last_value = lastOp.arg
              /\ nodes[x].last_update = now
              /\ fired = IF x \in DOMAIN callbacks
                         THEN {Called(x, lastOp.arg)} ELSE {}
    /\ lastOp.op = "check_offline_nodes" =>
          \A x \in DOMAIN nodes :
              nodes[x].last_value.status = "online" => x \notin lastOp.ids

C4_Witness ==
    /\ lastOp.op = "heartbeat"
    /\ lastOp.prev = "offline"
    /\ lastOp.arg.status = "online"
    /\ now > 0
    /\ fired # {}

\* C6: a callback that was replaced by a later registration for the same
\* node is never invoked again; every heartbeat, update_node_state and
\* staleness transition of a node invokes the callback registered last.
C6_CallbackReplacement ==
    /\ \A f \in fired :
          /\ f.node \in DOMAIN callbacks
          /\ f.cb = callbacks[f.node]
          /\ f.cb \notin superseded[f.node]
    /\ lastOp.op \in {"heartbeat", "update_node_state", "check_offline_nodes"}
          => \A x \in lastOp.ids :
                x \in DOMAIN callbacks => \E f \in fired : f.node = x

C6_Witness ==
    /\ lastOp.op = "check_offline_nodes"
    /\ \E f \in fired : superseded[f.node] # {}

get_config(x) == config[x]

\* C1: when publish_node_config(x, c) has returned Ok while Node x was at
\* its loop, so that the sample was delivered to it, then eventually
\* get_config of x equals c, unless run of x ends before.
C1_ConfigRoundTrip ==
    \A x \in NodeIds : \A c \in PushedConfigs :
        (/\ lastOp.op = "publish_node_config"
         /\ lastOp.ids = {x}
         /\ lastOp.arg = c
         /\ InLoop(x))
            ~> (get_config(x) = c \/ ~InLoop(x))

C1_Witness ==
    \E x \in NodeIds :
        /\ InLoop(x)
        /\ lastOp.op = "update_config"
        /\ lastOp.ids = {x}
        /\ lastRecv[x] = lastOp.arg
        /\ get_config(x) = lastRecv[x]
        /\ get_config(x) # InitConfig(x)

\* C2 as stated: whenever Node x is at its loop with no update_config in
\* progress, get_config equals the last config sample that decoded, or the
\* constructor's config when there was none.
C2_Stated ==
    \A x \in NodeIds :
        (nodePc[x] = "loop" /\ direct[x] = None) =>
            get_config(x) = IF lastRecv[x] = None THEN InitConfig(x)
                            ELSE lastRecv[x]

\* C2: whenever no update_config of Node x is in progress, get_config equals
\* the argument of the update_config call that returned last, whether made
\* by the loop for a decoded config sample or by a caller, or the
\* constructor's config when there was none; with no call by a caller that
\* is the last config sample that decoded.
C2_LastAppliedConfig ==
    \A x \in NodeIds :
        (nodePc[x] # "applying" /\ direct[x] = None) =>
            /\ get_config(x) = IF lastDone[x] = None THEN InitConfig(x)
                               ELSE lastDone[x]
            /\ directCalls = 0 =>
                  get_config(x) = IF lastRecv[x] = None THEN InitConfig(x)
                                  ELSE lastRecv[x]

C2_Witness ==
    \E x \in NodeIds :
        /\ nodePc[x] = "loop"
        /\ direct[x] = None
        /\ directCalls > 0
        /\ lastRecv[x] # None
        /\ lastDone[x] # lastRecv[x]
        /\ get_config(x) = lastDone[x]

(***************************************************************************)
(* Properties of a live Node seen by the Orchestrator (SpecLive).          *)
(***************************************************************************)
\* Node x is at its loop, not cancelled, and every heartbeat of its run has
\* reached the Orchestrator, one of them processed already.
Live(x) ==
    /\ InLoop(x)
    /\ ~cancelled[x]
    /\ hbTask[x] = "running"
    /\ ~lost[x]
    /\ seen[x]

\* C5: while Node x is live, the Orchestrator's last_update for x is never
\* more than one heartbeat period old, x is online, and the staleness
\* checker does not change x.
C5_LiveNodeStaysOnline ==
    \A x \in NodeIds :
        (orchPc = "running" /\ Live(x)) =>
            /\ x \in DOMAIN nodes
            /\ now - nodes[x].last_update <= HEARTBEAT_PERIOD
            /\ nodes[x].last_value.status = "online"
            /\ ~(lastOp.op = "check_offline_nodes" /\ x \in lastOp.ids)

C5_Witness ==
    \E x \in NodeIds :
        /\ orchPc = "running"
        /\ Live(x)
        /\ now > STALENESS_THRESHOLD
        /\ lastOp.op = "check_offline_nodes"
        /\ nodes[x].last_update = now

(***************************************************************************)
(* Properties of the subscriber dispatch (SpecSub).                        *)
(***************************************************************************)
\* Sample i has been dispatched wherever it was delivered.
Settled(i) ==
    /\ \A s \in BagToSet(sendTasks) : s.id # i
    /\ \A j \in DOMAIN channel : channel[j].id # i

\* Sample i was put when no create_subscriber call was in progress, and no
\* call has begun since: the registry is the one the sample met.
SameRegistry(i) ==
    /\ published[i].begun = published[i].returned
    /\ published[i].begun = subBegun
    /\ pendingSub = <<>>

\* The number of registry entries with callback cb that key reaches.
Matching(cb, key) ==
    Cardinality({t \in DOMAIN subscribers :
                    Intersects(t, key) /\ subscribers[t] = cb})

\* C8 as stated: when the callback of topic T has been replaced, a later
\* sample on T invokes the callback registered last exactly once, and a
\* replaced callback that no entry holds not at all.
C8_Stated ==
    \A i \in DOMAIN published : \A T \in DOMAIN subscribers :
        (/\ SameRegistry(i)
         /\ Settled(i)
         /\ published[i].key = T
         /\ replacedSub[T] # {}
         /\ Matching(subscribers[T], T) = 1) =>
            /\ subCalls[<<subscribers[T], i>>] = 1
            /\ \A cb \in replacedSub[T] :
                  Matching(cb, T) = 0 => subCalls[<<cb, i>>] = 0

\* C9 as stated: a sample put once invokes the callback of every registry
\* entry its key reaches exactly once.
C9_Stated ==
    \A i \in DOMAIN published : \A cb \in SubCbs :
        (SameRegistry(i) /\ Settled(i)) =>
            subCalls[<<cb, i>>] = Matching(cb, published[i].key)

\* C10: with one entry on node/n1/data and one on node/*/data, a sample on
\* node/n1/data reaches both callbacks, and a sample on node/n2/data
\* reaches the callback of node/*/data and not that of node/n1/data.
C10_FanOut ==
    \A i \in DOMAIN published :
        (/\ SameRegistry(i)
         /\ Settled(i)
         /\ DataKey("n1") \in DOMAIN subscribers
         /\ DataKey("*") \in DOMAIN subscribers) =>
            LET exact == subscribers[DataKey("n1")]
                glob == subscribers[DataKey("*")]
            IN  /\ published[i].key = DataKey("n1") =>
                      /\ subCalls[<<exact, i>>] >= 1
                      /\ subCalls[<<glob, i>>] >= 1
                /\ published[i].key = DataKey("n2") =>
                      /\ subCalls[<<glob, i>>] >= 1
                      /\ exact # glob => subCalls[<<exact, i>>] = 0

C10_Witness ==
    \E i \in DOMAIN published :
        /\ SameRegistry(i)
        /\ Settled(i)
        /\ DOMAIN subscribers = {DataKey("n1"), DataKey("*")}
        /\ subscribers[DataKey("n1")] # subscribers[DataKey("*")]
        /\ published[i].key = DataKey("n1")
        /\ \A cb \in SubCbs : subCalls[<<cb, i>>] >= 1

(***************************************************************************)
(* Properties of the publisher registry (SpecPub).                         *)
(***************************************************************************)
\* C11 as stated: publish on a topic that has no publisher returns
\* PublisherNotFound, makes no transport put and leaves the registry as it
\* was.
C11_Stated ==
    (lastOp.op = "publish" /\ lastOp.prev = "absent") =>
        /\ ret = "PublisherNotFound"
        /\ pubPuts = lastOp.arg.puts
        /\ publishers = lastOp.arg.pubs

(***************************************************************************)
(* Properties of the retry loop of publish_node_config (SpecRetry).        *)
(***************************************************************************)
\* C12: a publish_node_config call in progress eventually returns; it
\* returns Ok exactly when a put succeeded, after one more attempt than puts
\* failed, and it returns PublishError exactly when every attempt failed
\* and the backoff policy handed out no further wait; it never makes more
\* attempts than the policy's waits plus one.
C12_RetryTerminates ==
    /\ [](/\ pubAttempts <= MaxBackoff + 1
          /\ lastOp.op = "publish_node_config" =>
                /\ ret \in {"Ok", "PublishError"}
                /\ ret = "Ok" => (/\ pubAttempts = pubFailures + 1
                                  /\ pubFailures <= MaxBackoff)
                /\ ret = "PublishError" => (/\ pubAttempts = pubFailures
                                            /\ pubFailures = MaxBackoff + 1))
    /\ (pubPc = "retrying") ~> (pubPc = "idle")

C12_Witness ==
    /\ lastOp.op = "publish_node_config"
    /\ ret = "Ok"
    /\ pubFailures = MaxBackoff
    /\ pubAttempts = MaxBackoff + 1

(***************************************************************************)
(* Properties of cancellation (SpecStop).                                  *)
(***************************************************************************)
\* C13 as stated: once its token is cancelled, Node::run eventually returns
\* Ok, and so does Orchestrator::run.
C13_Stated ==
    /\ \A x \in NodeIds : (InLoop(x) /\ cancelled[x]) ~> (nodePc[x] = "done")
    /\ (orchPc = "running" /\ orchCancelled) ~> (orchPc = "stopped")

(***************************************************************************)
(* Properties of what is left when run has returned (SpecQuiesce).         *)
(***************************************************************************)
\* C14 as stated: when run has returned after cancellation, every
\* background task of the agent has terminated and every transport
\* subscriber it declared is undeclared.
C14_Stated ==
    /\ nodePc[Agent] = "done" =>
          /\ hbTask[Agent] = "exited"
          /\ dispatchTask # "running"
          /\ ~ConfigSubDeclared(Agent)
          /\ DeclaredCount(subscribers, pendingSub, DataKey("n1")) = 0
    /\ orchPc = "stopped" =>
          /\ checkTask = "exited"
          /\ ~StatusSubDeclared

(***************************************************************************)
(* Properties of the run loop's errors (SpecStop).                         *)
(***************************************************************************)
\* C15 as stated: a config sample that does not decode leaves the Node at
\* its loop with its config as it was.
C15_Stated ==
    \A x \in NodeIds :
        (lastOp.op = "recv_config_err" /\ lastOp.ids = {x}) =>
            /\ InLoop(x)
            /\ get_config(x) = IF lastDone[x] = None THEN InitConfig(x)
                               ELSE lastDone[x]

(***************************************************************************)
(* Properties of the start of Node::run (SpecBoot).                        *)
(***************************************************************************)
\* The status samples of node x waiting to be processed by the
\* Orchestrator that carry the given status.
StatusSamples(x, status) ==
    {s \in BagToSet(healthTasks) :
        /\ s.key = StatusKey(x)
        /\ from_json(s.payload).ok
        /\ from_json(s.payload).val.status = status}

\* C16: when Node::run enters its loop it has published exactly one
\* heartbeat, with status "online", on fabric/<id>/status; no heartbeat is
\* published before run is called, and the first tick of the status task
\* and the first config sample taken by the loop come after that heartbeat.
C16_InitialHeartbeat ==
    \A x \in NodeIds :
        /\ nodePc[x] = "new" => hbSent[x] = 0
        /\ (lastOp.op = "node_run" /\ lastOp.ids = {x}) =>
              /\ hbSent[x] = 1
              /\ ~hbDone[x]
              /\ lastRecv[x] = None
              /\ StatusSubDeclared =>
                    /\ \A s \in BagToSet(healthTasks) :
                          s.key = StatusKey(x) => s \in StatusSamples(x, "online")
                    /\ \A s \in StatusSamples(x, "online") :
                          CopiesIn(s, healthTasks) = 1
                    /\ Cardinality(StatusSamples(x, "online")) = 1
        /\ (hbDone[x] \/ lastRecv[x] # None) => hbSent[x] >= 1

C16_Witness ==
    /\ lastOp.op = "node_run"
    /\ lastOp.ids = {Agent}
    /\ StatusSubDeclared
    /\ cfgPuts > 0
    /\ hbSent[Agent] = 1
    /\ StatusSamples(Agent, "online") # {}

\* C17 as stated: a failed put of a heartbeat, the initial one or one of the
\* status task, does not make run return an error, and the status task
\* keeps ticking.
C17_Stated ==
    \A x \in NodeIds :
        /\ (/\ lastOp.op = "node_run_err"
            /\ lastOp.ids = {x}
            /\ lastOp.arg.cause = "update_status") => nodePc[x] # "failed"
        /\ (lastOp.op = "update_status" /\ lastOp.ids = {x}) =>
              /\ nodePc[x] # "failed"
              /\ hbTask[x] = "running"

(***************************************************************************)
(* Properties of events and of construction (SpecIface).                   *)
(***************************************************************************)
\* C18 as stated: when the run loop of node x has nothing left to take,
\* every sample put below node/<x>/event while it was running has led to
\* one call of handle_event on its interface.
C18_Stated ==
    \A x \in NodeIds :
        (nodePc[x] = "loop" /\ cfgQueue[x] = <<>>) =>
            eventCalls[x] = eventsPut[x]

\* C19 as stated: Node::new with no interface given and a type name no
\* plugin factory is registered for returns an error.
C19_Stated ==
    (/\ lastOp.op = "node_new"
     /\ lastOp.arg.interface = "none"
     /\ lastOp.arg.node_type \notin Factories) => built.ret = "Err"

(***************************************************************************)
(* Properties of panicking callbacks (SpecPanic).                          *)
(***************************************************************************)
\* C20 as stated: after a callback has panicked the run loop is still
\* running, and a sample put afterwards, once it is dispatched wherever it
\* was delivered, has reached every callback registered for its key.
C20_Stated ==
    /\ (dispatchTask = "panicked" /\ hbTask[Agent] = "running") =>
          nodePc[Agent] = "loop"
    /\ \A i \in DOMAIN published : \A cb \in SubCbs :
          (/\ published[i].late
           /\ SameRegistry(i)
           /\ Settled(i)
           /\ Matching(cb, published[i].key) >= 1) =>
              subCalls[<<cb, i>>] >= 1

(***************************************************************************)
(* Properties of publish_node_config under cancellation (SpecRetryCancel). *)
(***************************************************************************)
\* C21 as stated: while the orchestrator's token is cancelled and
\* publish_node_config waits between two attempts, the call makes no
\* further attempt.
C21_Stated ==
    [][(orchCancelled /\ pubPc = "retrying" /\ pubAttempts >= 1) =>
          pubAttempts' = pubAttempts]_vars

(***************************************************************************)
(* Properties of the plugin registry (SpecRegistry).                       *)
(***************************************************************************)
\* C22: create_node for a type returns None while no registration of the
\* type has completed, and otherwise the interface built, from the config
\* passed, by the factory of the last registration completed; it never
\* returns an entry whose insertion is under way.
C22_Registry ==
    /\ created.by \in FactoryIds \cup {"none"}
    /\ lastOp.op = "create_node" =>
          LET t == lastOp.arg.type
          IN  created = IF regLog[t] = <<>> THEN NoNode
                        ELSE [some |-> TRUE,
                              by |-> regLog[t][Len(regLog[t])],
                              config |-> lastOp.arg.config]

C22_Witness ==
    /\ lastOp.op = "create_node"
    /\ Len(regLog[lastOp.arg.type]) = 2
    /\ regLog[lastOp.arg.type][1] # regLog[lastOp.arg.type][2]
    /\ created.by = regLog[lastOp.arg.type][2]

(***************************************************************************)
(* Properties of the staleness checker's transitions (SpecOrch).           *)
(***************************************************************************)
\* The invocations of callbacks for node x made by the last step.
FiredFor(x) == {f \in fired : f.node = x}

\* C23: a tick of the staleness checker leaves every node that was not
\* online as it was and invokes no callback for it; a node the tick marks
\* offline was online, and its callback, when one is registered, is invoked
\* by the tick exactly once.
C23_OncePerTransition ==
    lastOp.op = "check_offline_nodes" =>
        \A x \in DOMAIN nodes :
            /\ lastOp.arg.before[x] # "online" =>
                  /\ x \notin lastOp.ids
                  /\ nodes[x].last_value.status = lastOp.arg.before[x]
                  /\ FiredFor(x) = {}
            /\ x \in lastOp.ids =>
                  /\ lastOp.arg.before[x] = "online"
                  /\ nodes[x].last_value.status = "offline"
                  /\ FiredFor(x) = IF x \in DOMAIN callbacks
                                   THEN {Called(x, nodes[x].last_value)}
                                   ELSE {}

\* A tick finds a node with a callback that an earlier tick marked offline,
\* with no heartbeat or update_node_state since.
C23_Witness ==
    /\ lastOp.op = "check_offline_nodes"
    /\ \E x \in DOMAIN nodes :
          /\ x \in DOMAIN callbacks
          /\ lastOp.arg.before[x] = "offline"
          /\ nodes[x].last_value.timestamp = 0
          /\ now - nodes[x].last_update > STALENESS_THRESHOLD + CHECK_PERIOD

(***************************************************************************)
(* Properties of the transitions to "unknown" (SpecHealth).                *)
(***************************************************************************)
\* C24 as stated: a step that makes the status of a node "unknown", be it
\* a heartbeat processed or a pass of check_node_health, invokes the
\* callback registered for that node exactly once.
C24_Stated ==
    /\ (lastOp.op = "heartbeat" /\ lastOp.prev # "unknown") =>
          \A x \in lastOp.ids :
              (nodes[x].last_value.status = "unknown"
               /\ x \in DOMAIN callbacks) =>
                  FiredFor(x) = {Called(x, nodes[x].last_value)}
    /\ lastOp.op = "check_node_health" =>
          \A x \in DOMAIN nodes :
              (/\ lastOp.arg.before[x] # "unknown"
               /\ nodes[x].last_value.status = "unknown"
               /\ x \in DOMAIN callbacks) =>
                  FiredFor(x) = {Called(x, nodes[x].last_value)}

(***************************************************************************)
(* Properties of the transitions to "offline" (SpecTicks).                 *)
(***************************************************************************)
\* The step makes node x, which was not offline, offline.
GoesOffline(x) ==
    /\ x \in DOMAIN nodes
    /\ nodes[x].last_value.status # "offline"
    /\ x \in DOMAIN nodes'
    /\ nodes'[x].last_value.status = "offline"

\* C25 as stated: whenever the status of a node becomes "offline", its
\* last_update is more than STALENESS_THRESHOLD old.
C25_Stated ==
    [][\A x \in NodeIds :
          GoesOffline(x) => now - nodes[x].last_update > STALENESS_THRESHOLD]_vars

\* C25: whenever the staleness checker makes a node offline, the node's
\* last_update is more than STALENESS_THRESHOLD old and is left as it is;
\* every other step that makes a node offline is a heartbeat processed or
\* an update_node_state whose NodeData says "offline", or a health check
\* whose reply does not say "online"; and no tick of the staleness checker
\* changes a node that is offline.
C25_OfflineTransitions ==
    [][\A x \in NodeIds :
          /\ (GoesOffline(x) /\ lastOp'.op = "check_offline_nodes") =>
                /\ now - nodes[x].last_update > STALENESS_THRESHOLD
                /\ nodes'[x].last_update = nodes[x].last_update
          /\ (GoesOffline(x) /\ lastOp'.op # "check_offline_nodes") =>
                \/ /\ lastOp'.op \in {"heartbeat", "update_node_state"}
                   /\ lastOp'.arg.status = "offline"
                \/ lastOp'.op = "check_node_health"
          /\ (/\ lastOp'.op = "check_offline_nodes"
              /\ x \in DOMAIN nodes
              /\ nodes[x].last_value.status = "offline") =>
                nodes'[x] = nodes[x]]_vars

\* The checker has just made offline a node whose last_update, set by a
\* heartbeat processed after time 0, was one second over the threshold.
C25_Witness ==
    /\ lastOp.op = "check_offline_nodes"
    /\ \E x \in lastOp.ids :
          /\ nodes[x].last_update > 0
          /\ nodes[x].last_update = lastHb[x]
          /\ now - nodes[x].last_update = STALENESS_THRESHOLD + CHECK_PERIOD

(***************************************************************************)
(* Properties of last_update (SpecTicks).                                  *)
(***************************************************************************)
\* C26: no step removes a node from the map or moves its last_update
\* backwards, last_update is never ahead of the clock, and a tick of the
\* staleness checker leaves every last_update as it is.
C26_MonotonicLastUpdate ==
    [][\A x \in DOMAIN nodes :
          /\ x \in DOMAIN nodes'
          /\ nodes'[x].last_update >= nodes[x].last_update
          /\ nodes'[x].last_update <= now'
          /\ lastOp'.op = "check_offline_nodes" =>
                nodes'[x].last_update = nodes[x].last_update]_vars

\* update_node_state has just rewritten, after the clock moved, a node
\* whose heartbeat was processed earlier and which the checker had marked
\* offline in between.
C26_Witness ==
    /\ lastOp.op = "update_node_state"
    /\ lastOp.prev = "offline"
    /\ \E x \in lastOp.ids :
          /\ lastHb[x] >= 0
          /\ lastHb[x] < now
          /\ nodes[x].last_update = now
          /\ now > STALENESS_THRESHOLD

(***************************************************************************)
(* Properties of the heartbeats published (SpecBeat).                      *)
(***************************************************************************)
\* The type every Node of the model was constructed with.
TypeOf(x) == CHOOSE t \in NodeTypes : TRUE

\* The number of status samples on the key of node x that wait to be
\* processed.
InFlight(x) ==
    BagCardinality([s \in {u \in BagToSet(healthTasks) :
                              u.key = StatusKey(x)} |->
                       CopiesIn(s, healthTasks)])

C28_MalformedDropped ==
    [][/\ lastOp'.op = "bad_status" =>
             /\ nodes' = nodes
             /\ callbacks' = callbacks
             /\ fired' = {}
             /\ orchPc' = orchPc
             /\ BagCardinality(healthTasks') = BagCardinality(healthTasks) - 1
       /\ (lastOp.op = "bad_status" /\ lastOp'.op = "heartbeat") =>
             \A x \in lastOp'.ids :
                 /\ x \in DOMAIN nodes'
                 /\ nodes'[x].last_value = lastOp'.arg
                 /\ nodes'[x].last_update = now
                 /\ fired' = IF x \in DOMAIN callbacks
                             THEN {Called(x, lastOp'.arg)} ELSE {}]_vars

\* A JSON text that is no NodeData has just been processed for a node that
\* is in the map and has a callback, and a heartbeat of that node waits.
C28_Witness ==
    /\ lastOp.op = "bad_status"
    /\ \E x \in lastOp.ids :
          /\ x \in DOMAIN nodes
          /\ x \in DOMAIN callbacks
          /\ now > nodes[x].last_update
          /\ \E s \in BagToSet(healthTasks) :
                s.key = StatusKey(x) /\ from_json(s.payload).ok

(***************************************************************************)
(* Properties of the activities of one Node (SpecSerial).                  *)
(***************************************************************************)
\* C29: heartbeat publication, config application and subscriber dispatch
\* of one Node are serial: while the run loop is between taking a config
\* sample and having written it, no heartbeat is published and no
\* subscriber sample is dispatched.
C29_Stated ==
    [][lastOp'.op \in {"update_status", "dispatch"} =>
          nodePc[Agent] # "applying"]_vars

(***************************************************************************)
(* Properties of the node map lock (SpecLock).                             *)
(***************************************************************************)
\* C30: whenever heartbeat processing, update_node_state or the staleness
\* checker has just invoked a callback, the node map lock is free.
C30_Stated ==
    (fired # {} /\ lastOp.op \in {"heartbeat", "update_node_state",
                                  "check_offline_nodes"})
        => nodesLock = "free"

(***************************************************************************)
(* Properties of a full dispatch channel (SpecFull).                       *)
(***************************************************************************)
\* C31: a sample the transport delivers while the dispatch channel holds
\* CHANNEL_CAPACITY samples is dropped: it is never dispatched.
C31_Stated ==
    lastOp.op = "dispatch" => ~published[lastOp.arg.id].full

(***************************************************************************)
(* Properties of construction (SpecSerial).                                *)
(***************************************************************************)
\* C32: when the constructor has returned and run has not been called, no
\* background task of the agent is at work: no subscriber sample is
\* dispatched before run.
C32_Stated ==
    nodePc[Agent] = "new" => lastOp.op # "dispatch"

(***************************************************************************)
(* Properties of the start of Node::run (SpecReact).                       *)
(***************************************************************************)
\* Node x has begun run and run has not returned.
Running(x) == nodePc[x] \in {"starting", "loop", "applying"}

\* C33: while run of node x is running, the config subscriber is declared
\* whenever a heartbeat of x has been published; a config the Orchestrator
\* pushes to x after seeing it online is then delivered to x, and when the
\* loop has applied it, it is the node's config.
C33_SubscribedBeforeHeartbeat ==
    \A x \in NodeIds :
        /\ (Running(x) /\ hbSent[x] >= 1) => ConfigSubDeclared(x)
        /\ (/\ Running(x)
            /\ lastOp.op = "publish_node_config"
            /\ lastOp.ids = {x}) =>
              /\ cfgQueue[x] # <<>>
              /\ cfgQueue[x][Len(cfgQueue[x])] = to_json_config(lastOp.arg)
        /\ (lastOp.op = "update_config" /\ lastOp.ids = {x}) =>
              /\ config[x] = lastOp.arg
              /\ cfgQueue[x] = <<>>

\* The config pushed in reaction to the initial heartbeat, the only one
\* published so far, has been applied.
C33_Witness ==
    /\ lastOp.op = "update_config"
    /\ lastOp.ids = {Agent}
    /\ hbSent[Agent] = 1
    /\ lastRecv[Agent] = lastOp.arg
    /\ config[Agent] = [node_id |-> Agent, config |-> "b"]

(***************************************************************************)
(* Properties of a Node whose run has returned (SpecReturn).               *)
(***************************************************************************)
\* C34: once run of node x has returned, with Ok after a cancellation or
\* with an error, no heartbeat of x is published.
C34_Stated ==
    [][\A x \in NodeIds :
          nodePc[x] \in {"done", "failed"} => hbSent'[x] = hbSent[x]]_vars

(***************************************************************************)
(* Properties of concurrent update_config calls (SpecCfg).                 *)
(***************************************************************************)
\* C35: whenever every update_config call on node x, by the run loop or by
\* a caller, has completed, the cached config of x equals the config held
\* by its interface.
C35_Stated ==
    \A x \in NodeIds :
        (nodePc[x] # "applying" /\ direct[x] = None) =>
            get_config(x) = ifaceCfg[x]

(***************************************************************************)
(* Properties of the Orchestrator's two map locks (SpecOrder).             *)
(***************************************************************************)
\* The call of o in progress is waiting for lock l.
Waits(o, l) ==
    \/ /\ opPc[o] = "waiting"
       /\ o = "update_node_health" => opArg[o].payload.json
       /\ l = lock_order(o)[1]
    \/ /\ opPc[o] = "locked"
       /\ NeedsSecond(o)
       /\ l = lock_order(o)[2]

\* The call of o in progress waits for a lock another call holds.
Blocked(o) == \E l \in {"nodes", "callbacks"} : Waits(o, l) /\ Holder(l) # "free"

\* C36: no operation waits for the node map lock while it holds the
\* callback map lock; no two operations each wait for a lock the other
\* holds; and whenever calls are in progress, one of them is not blocked.
C36_NoDeadlock ==
    /\ \A o \in LockOps : ~(cbLock = o /\ Waits(o, "nodes"))
    /\ \A o1, o2 \in LockOps : \A l1, l2 \in {"nodes", "callbacks"} :
          ~(/\ Waits(o1, l1) /\ Holder(l1) = o2
            /\ Waits(o2, l2) /\ Holder(l2) = o1)
    /\ (\E o \in LockOps : opPc[o] # "idle") =>
          \E o \in LockOps : opPc[o] # "idle" /\ ~Blocked(o)

\* Heartbeat processing holds the node map lock and waits for the callback
\* map lock, which register_callback holds, while update_node_state waits
\* for the node map lock.
C36_Witness ==
    /\ nodesLock = "update_node_health"
    /\ Waits("update_node_health", "callbacks")
    /\ cbLock = "register_callback"
    /\ Waits("update_node_state", "nodes")
    /\ Waits("get_nodes", "nodes")

(***************************************************************************)
(* Properties of the order of heartbeats (SpecDeliver).                    *)
(***************************************************************************)
\* C37: once every heartbeat delivered for node x has been processed, the
\* last_value of x is the payload of the heartbeat delivered last.
C37_Stated ==
    \A x \in NodeIds :
        (/\ delivered[x] # <<>>
         /\ \A s \in BagToSet(healthTasks) : s.key # StatusKey(x)) =>
            /\ x \in DOMAIN nodes
            /\ nodes[x].last_value =
                  from_json(delivered[x][Len(delivered[x])]).val

(***************************************************************************)
(* Properties of the order of subscriber samples (SpecSeq).                *)
(***************************************************************************)
\* C38: when a sample is dispatched, no callback has yet been passed a
\* sample that the transport delivered after it.
C38_Stated ==
    [][lastOp'.op = "dispatch" =>
          \A k \in DOMAIN subCalls :
              k[2] > lastOp'.arg.id => subCalls[k] = 0]_vars

C40_Stated ==
    \A x \in NodeIds :
        (/\ lastOp.op \in {"publish_node_config", "update_node_config"}
         /\ lastOp.ids = {x}
         /\ InLoop(x)) =>
            /\ cfgQueue[x] # <<>>
            /\ cfgQueue[x][Len(cfgQueue[x])] = to_json_config(lastOp.arg)

=============================================================================
